---- MODULE Spec2Model ----
(***************************************************************************)
(* A model of the contract evaluation core of pactum (formerly             *)
(* pycontractz): the argument mapper, the binding resolver, the predicate  *)
(* validator and the contract evaluator, as they are written in src/.      *)
(*                                                                         *)
(* Python values are modelled as tagged records:                           *)
(*   [tag |-> "ref",   oid |-> n]     a reference to heap object n         *)
(*                                    (oid 0 is None)                      *)
(*   [tag |-> "tuple", items |-> s]   the tuple a *args parameter receives *)
(*   [tag |-> "dict",  map |-> f]     the dict a **kwargs parameter gets   *)
(* Dictionaries keyed by names are functions whose DOMAIN is the key set.  *)
(***************************************************************************)
EXTENDS Integers, Sequences, FiniteSets, TLC

\* ------------------------------------------------------------------------
\* Bounds of the model

\* longest signature given to the argument mapper
MaxParams == 3
\* most positional arguments of a call given to the argument mapper
MaxArgs == 2
\* most candidate scopes given to the binding resolver
MaxScopes == 2
\* most mutations of objects made around one resolution
MaxMutations == 2
\* most parameters of a contract's predicate
MaxPredParams == 2
\* `with` blocks on handler overrides open at once
MaxNesting == 2

\* ------------------------------------------------------------------------
\* Generic helpers for name-keyed dictionaries

EmptyDict == [n \in {} |-> n]

Put(d, k, v) == [n \in (DOMAIN d) \cup {k} |-> IF n = k THEN v ELSE d[n]]

\* Python's `a | b` on dicts: b's entries win
Merge(a, b) == [n \in (DOMAIN a) \cup (DOMAIN b) |-> IF n \in DOMAIN b THEN b[n] ELSE a[n]]

Restrict(d, keys) == [n \in (DOMAIN d) \cap keys |-> d[n]]

Range(s) == {s[i] : i \in DOMAIN s}

Ref(n) == [tag |-> "ref", oid |-> n]

\* ------------------------------------------------------------------------
\* Parameter model (inspect.Parameter / inspect.Signature)

POSITIONAL_ONLY == "POSITIONAL_ONLY"
POSITIONAL_OR_KEYWORD == "POSITIONAL_OR_KEYWORD"
VAR_POSITIONAL == "VAR_POSITIONAL"
KEYWORD_ONLY == "KEYWORD_ONLY"
VAR_KEYWORD == "VAR_KEYWORD"

ParamKinds == {POSITIONAL_ONLY, POSITIONAL_OR_KEYWORD, VAR_POSITIONAL, KEYWORD_ONLY, VAR_KEYWORD}

\* the order inspect.Signature requires of the kinds
KindRank(k) ==
    CASE k = POSITIONAL_ONLY -> 1
      [] k = POSITIONAL_OR_KEYWORD -> 2
      [] k = VAR_POSITIONAL -> 3
      [] k = KEYWORD_ONLY -> 4
      [] k = VAR_KEYWORD -> 5

Param(n, k, d) == [name |-> n, kind |-> k, hasDefault |-> d]

SigNames(signature) == {signature[j].name : j \in DOMAIN signature}

\* ------------------------------------------------------------------------
\* The argument mapper: map_function_arguments(signature, args, kwargs)

\* the loop state: argsmap, i (next used positional argument index, 0-based),
\* has_kwargs, and raised (a KeyError/IndexError escaped the inner try)
MapStart == [argsmap |-> EmptyDict, i |-> 0, has_kwargs |-> FALSE, raised |-> FALSE]

\* a handling of the missing argument that stores a default value
MapMissingMaterialized(param, st) ==
    IF param.hasDefault
    THEN [st EXCEPT !.argsmap = Put(@, param.name, [tag |-> "default"])]
    ELSE [st EXCEPT !.raised = TRUE]

\* except (KeyError, IndexError): tolerated iff the parameter has a default
MapMissing(param, st) ==
    IF param.hasDefault THEN st ELSE [st EXCEPT !.raised = TRUE]

\* one iteration of `for name, param in signature.parameters.items()`
MapParam(param, args, kwargs, st) ==
    LET name == param.name
        i == st.i
    IN  CASE param.kind = POSITIONAL_ONLY ->
               IF i < Len(args)
               THEN [st EXCEPT !.argsmap = Put(@, name, args[i + 1]), !.i = i + 1]
               ELSE MapMissing(param, st)
          [] param.kind = POSITIONAL_OR_KEYWORD ->
               IF name \in DOMAIN kwargs
               THEN [st EXCEPT !.argsmap = Put(@, name, kwargs[name])]
               ELSE IF i < Len(args)
                    THEN [st EXCEPT !.argsmap = Put(@, name, args[i + 1]), !.i = i + 1]
                    ELSE MapMissing(param, st)
          [] param.kind = KEYWORD_ONLY ->
               IF name \in DOMAIN kwargs
               THEN [st EXCEPT !.argsmap = Put(@, name, kwargs[name])]
               ELSE MapMissing(param, st)
          [] param.kind = VAR_POSITIONAL ->
               [st EXCEPT !.argsmap = Put(@, name, [tag |-> "tuple",
                                                    items |-> SubSeq(args, i + 1, Len(args))]),
                          !.i = i + Len(SubSeq(args, i + 1, Len(args)))]
          [] param.kind = VAR_KEYWORD ->
               [st EXCEPT !.has_kwargs = TRUE,
                          !.argsmap = Put(@, name, [tag |-> "dict",
                                                    map |-> Restrict(kwargs, (DOMAIN kwargs) \ (DOMAIN st.argsmap))])]

RECURSIVE MapLoop(_, _, _, _, _)
MapLoop(signature, args, kwargs, k, st) ==
    IF k > Len(signature) \/ st.raised
    THEN st
    ELSE MapLoop(signature, args, kwargs, k + 1, MapParam(signature[k], args, kwargs, st))

map_function_arguments(signature, args, kwargs) ==
    LET st == MapLoop(signature, args, kwargs, 1, MapStart)
    IN  IF st.raised
        THEN [kind |-> "TypeError", msg |-> "Arguments don't match function signature"]
        ELSE IF st.i < Len(args)
        THEN [kind |-> "TypeError", msg |-> "Excess positional arguments"]
        ELSE IF ~st.has_kwargs /\ ~(\A k \in DOMAIN kwargs : k \in SigNames(signature))
        THEN [kind |-> "TypeError", msg |-> "Excess keyword arguments"]
        ELSE [kind |-> "ok", argsmap |-> st.argsmap]

\* ------------------------------------------------------------------------
\* Python's own binding of a call f(*args, **kwargs) to a signature (what
\* `func(*args, **kwargs)` does with the arguments)

PositionalParams(signature) ==
    SelectSeq(signature, LAMBDA p : p.kind \in {POSITIONAL_ONLY, POSITIONAL_OR_KEYWORD})

HasKind(signature, k) == \E j \in DOMAIN signature : signature[j].kind = k

\* names that can be given by keyword
KeywordNames(signature) ==
    {signature[j].name : j \in {n \in DOMAIN signature :
                                  signature[n].kind \in {POSITIONAL_OR_KEYWORD, KEYWORD_ONLY}}}

Min(a, b) == IF a < b THEN a ELSE b

\* names of the parameters bound from positional arguments
BoundPositionally(signature, args) ==
    LET pp == PositionalParams(signature)
    IN  {pp[j].name : j \in 1..Min(Len(args), Len(pp))}

\* the non-variadic parameters that receive an argument
PyBound(signature, args, kwargs) ==
    BoundPositionally(signature, args) \cup ((DOMAIN kwargs) \cap KeywordNames(signature))

PyValidCall(signature, args, kwargs) ==
    /\ Len(args) > Len(PositionalParams(signature)) => HasKind(signature, VAR_POSITIONAL)
    /\ \A k \in DOMAIN kwargs :
          IF k \in KeywordNames(signature)
          THEN k \notin BoundPositionally(signature, args)
          ELSE HasKind(signature, VAR_KEYWORD)
    /\ \A j \in DOMAIN signature :
          \/ signature[j].kind \in {VAR_POSITIONAL, VAR_KEYWORD}
          \/ signature[j].hasDefault
          \/ signature[j].name \in PyBound(signature, args, kwargs)

\* what inspect.Signature accepts as a parameter list
ValidSignature(signature) ==
    /\ \A j, k \in DOMAIN signature :
          /\ j < k => KindRank(signature[j].kind) <= KindRank(signature[k].kind)
          /\ j # k => signature[j].name # signature[k].name
          /\ (j < k /\ signature[j].kind = signature[k].kind)
                => signature[j].kind \notin {VAR_POSITIONAL, VAR_KEYWORD}
          /\ (j < k /\ signature[j].hasDefault
                /\ signature[k].kind \in {POSITIONAL_ONLY, POSITIONAL_OR_KEYWORD})
                => signature[k].hasDefault
    /\ \A j \in DOMAIN signature :
          signature[j].kind \in {VAR_POSITIONAL, VAR_KEYWORD} => ~signature[j].hasDefault

\* ------------------------------------------------------------------------
\* The heap: mutable objects with identity.  An object is a cell holding an
\* immutable payload `val` and one reference `next` to another object (0: None),
\* the shape of a Python list that holds numbers and one nested list.

None == Ref(0)

Cell(v, n) == [val |-> v, next |-> n]

\* the objects reachable from object `oid` (itself included)
RECURSIVE ReachFrom(_, _, _)
ReachFrom(oid, h, seen) ==
    IF oid = 0 \/ oid \in seen \/ oid \notin DOMAIN h
    THEN seen
    ELSE ReachFrom(h[oid].next, h, seen \cup {oid})

\* the references a value holds directly
RefsOf(value) ==
    CASE value.tag = "ref" -> {value.oid} \ {0}
      [] value.tag = "tuple" -> {value.items[j].oid : j \in DOMAIN value.items} \ {0}
      [] value.tag = "dict" -> {value.map[n].oid : n \in DOMAIN value.map} \ {0}

\* the objects reachable from a value
Reach(value, h) == UNION {ReachFrom(o, h, {}) : o \in RefsOf(value)}

RECURSIVE Ascending(_)
Ascending(S) ==
    IF S = {} THEN <<>>
    ELSE LET lo == CHOOSE x \in S : \A y \in S : x <= y
         IN  <<lo>> \o Ascending(S \ {lo})

\* the n lowest object ids not in use
FreshOids(h, n) ==
    SubSeq(Ascending((1..(Cardinality(DOMAIN h) + n)) \ DOMAIN h), 1, n)

\* a copy that stops at the first level: the copy of a list holds the
\* original's nested list
shallowcopy(value, h) ==
    LET olds == Ascending(RefsOf(value))
        news == FreshOids(h, Len(olds))
        ren(o) == IF o = 0 THEN o ELSE news[CHOOSE j \in DOMAIN olds : olds[j] = o]
        copies == [o \in Range(news) |-> h[olds[CHOOSE j \in DOMAIN news : news[j] = o]]]
        copied == CASE value.tag = "ref" -> Ref(ren(value.oid))
                    [] value.tag = "tuple" ->
                         [tag |-> "tuple", items |-> [j \in DOMAIN value.items |-> Ref(ren(value.items[j].oid))]]
                    [] value.tag = "dict" ->
                         [tag |-> "dict", map |-> [n \in DOMAIN value.map |-> Ref(ren(value.map[n].oid))]]
    IN  [value |-> copied, heap |-> Merge(h, copies)]

\* copy.deepcopy(value): every object reachable from the value is copied once
\* (the memo), references among the copies follow the originals'
deepcopy(value, h) ==
    LET olds == Ascending(Reach(value, h))
        news == FreshOids(h, Len(olds))
        ren(o) == IF o = 0 \/ ~(\E j \in DOMAIN olds : olds[j] = o)
                  THEN o
                  ELSE news[CHOOSE j \in DOMAIN olds : olds[j] = o]
        copies == [o \in Range(news) |->
                     LET src == olds[CHOOSE j \in DOMAIN news : news[j] = o]
                     IN  Cell(h[src].val, ren(h[src].next))]
        copied == CASE value.tag = "ref" -> Ref(ren(value.oid))
                    [] value.tag = "tuple" ->
                         [tag |-> "tuple", items |-> [j \in DOMAIN value.items |-> Ref(ren(value.items[j].oid))]]
                    [] value.tag = "dict" ->
                         [tag |-> "dict", map |-> [n \in DOMAIN value.map |-> Ref(ren(value.map[n].oid))]]
    IN  [value |-> copied, heap |-> Merge(h, copies)]

\* ------------------------------------------------------------------------
\* The binding resolver

\* __resolve_binding: is `name` in some candidate scope
Resolvable(candidates, name) == \E j \in DOMAIN candidates : name \in DOMAIN candidates[j]

\* the value of the last scope holding `name`
resolve_binding_last(candidates, name) ==
    LET last == CHOOSE j \in DOMAIN candidates :
                    /\ name \in DOMAIN candidates[j]
                    /\ \A k \in (j + 1)..Len(candidates) : name \notin DOMAIN candidates[k]
    IN  candidates[last][name]

\* __resolve_binding: the value of the first scope, in list order, holding `name`
resolve_binding(candidates, name) ==
    LET first == CHOOSE j \in DOMAIN candidates :
                    /\ name \in DOMAIN candidates[j]
                    /\ \A k \in 1..(j - 1) : name \notin DOMAIN candidates[k]
    IN  candidates[first][name]

\* the clone comprehension: one deepcopy per clone entry, each on the heap the
\* previous one left
RECURSIVE CloneAll(_, _, _, _)
CloneAll(candidates, clone, todo, acc) ==
    IF todo = {} THEN acc
    ELSE LET k == CHOOSE n \in todo : TRUE
             c == deepcopy(resolve_binding(candidates, clone[k]), acc.heap)
         IN  CloneAll(candidates, clone, todo \ {k},
                      [cloned |-> Put(acc.cloned, k, c.value), heap |-> c.heap])

\* a resolver that passes over the sources no scope holds
resolve_bindings_lenient(candidates, capture, clone, h) ==
    LET capture1 == Restrict(capture, {n \in DOMAIN capture : Resolvable(candidates, capture[n])})
        clone1 == Restrict(clone, {n \in DOMAIN clone : Resolvable(candidates, clone[n])})
        referenced == [k \in DOMAIN capture1 |-> resolve_binding(candidates, capture1[k])]
        c == CloneAll(candidates, clone1, DOMAIN clone1, [cloned |-> EmptyDict, heap |-> h])
    IN  [kind |-> "ok", kwargs |-> Merge(referenced, c.cloned), heap |-> c.heap]

\* resolve_bindings(candidates, capture, clone).  The comprehension over capture
\* runs first, then the one over clone; the first source that no scope holds
\* raises ValueError naming it.  The iteration order within a dict is not
\* modelled: `names` holds every source the error may name.
resolve_bindings(candidates, capture, clone, h) ==
    LET badCapture == {capture[k] : k \in {n \in DOMAIN capture : ~Resolvable(candidates, capture[n])}}
        badClone == {clone[k] : k \in {n \in DOMAIN clone : ~Resolvable(candidates, clone[n])}}
    IN  IF badCapture # {}
        THEN [kind |-> "ValueError", names |-> badCapture]
        ELSE IF badClone # {}
        THEN [kind |-> "ValueError", names |-> badClone]
        ELSE LET referenced == [k \in DOMAIN capture |-> resolve_binding(candidates, capture[k])]
                 c == CloneAll(candidates, clone, DOMAIN clone, [cloned |-> EmptyDict, heap |-> h])
             IN  [kind |-> "ok", kwargs |-> Merge(referenced, c.cloned), heap |-> c.heap]

\* ------------------------------------------------------------------------
\* Evaluation semantics, assertion kinds, violations and handlers

ignore == "ignore"
observe == "observe"
enforce == "enforce"
quick_enforce == "quick_enforce"

EvaluationSemantic == {ignore, observe, enforce, quick_enforce}

\* _assert_contract.py and contract_violation_handler.py call `check` the
\* member that evaluation_semantic.py names `observe`: the semantic under
\* which the handler is called and the program continues if it returns
check == observe

AssertionKind == {"pre", "post", "assertion"}

\* the violation record __handle_contract_violation constructs
ContractViolation(comment, kind, location, semantic) ==
    [comment |-> comment, kind |-> kind, location |-> location, semantic |-> semantic]

default_contract_violation_handler == "default_contract_violation_handler"
raising_contract_violation_handler == "raising_contract_violation_handler"

Handlers == {default_contract_violation_handler, raising_contract_violation_handler}

NoException == [kind |-> "none"]

Raise(exc) == [kind |-> "raise", exc |-> exc]

Return(value) == [kind |-> "return", value |-> value]

\* what a run of library code leaves behind: the events in order, and the
\* exception that ended it, if any
Run(trace, exc) == [trace |-> trace, exc |-> exc]

\* invoke_contract_violation_handler: the registered handler is called with
\* the violation; the default one prints it, the raising one raises
invoke_contract_violation_handler(violation, handler) ==
    Run(<<[ev |-> "handler", violation |-> violation, handler |-> handler]>>,
        IF handler = raising_contract_violation_handler
        THEN Raise("ContractViolationException")
        ELSE NoException)

\* __handle_contract_violation
handle_contract_violation(semantic, kind, location, handler) ==
    LET violation == ContractViolation("", kind, location, semantic)
        constructed == <<[ev |-> "violation", violation |-> violation]>>
    IN  IF semantic = check
        THEN LET h == invoke_contract_violation_handler(violation, handler)
             IN  Run(constructed \o h.trace, h.exc)
        ELSE Run(constructed, NoException)

\* what the predicate does when called: returns a truthy value, returns a
\* falsy value, or raises
PredicateOutcomes == {"true", "false", "raise"}

\* predicate(**predicate_kwargs): Python binds the keywords to the predicate's
\* parameters before the predicate's body runs, and raises TypeError when
\* they do not match
call_predicate(pred_params, predicate_kwargs, po) ==
    IF ~PyValidCall(pred_params, <<>>, predicate_kwargs)
    THEN [trace |-> <<>>, exc |-> Raise("TypeError"), result |-> "none"]
    ELSE [trace |-> <<[ev |-> "predicate", kwargs |-> predicate_kwargs, result |-> po]>>,
          exc |-> IF po = "raise" THEN Raise("PredicateError") ELSE NoException,
          result |-> po]

\* an evaluator that does not look at the semantic before it calls the predicate
assert_contract_unguarded(semantic, kind, loc, pred_params, predicate_kwargs, po, handler) ==
    LET p == call_predicate(pred_params, predicate_kwargs, po)
    IN  IF p.exc # NoException
        THEN Run(p.trace, p.exc)
        ELSE IF p.result = "false"
        THEN LET h == handle_contract_violation(semantic, kind, loc, handler)
             IN  Run(p.trace \o h.trace, h.exc)
        ELSE Run(p.trace, NoException)

\* assert_contract
assert_contract(semantic, kind, loc, pred_params, predicate_kwargs, po, handler) ==
    IF semantic = ignore
    THEN Run(<<>>, NoException)
    ELSE LET p == call_predicate(pred_params, predicate_kwargs, po)
         IN  IF p.exc # NoException
             THEN Run(p.trace, p.exc)
             ELSE IF p.result = "false"
             THEN LET h == handle_contract_violation(semantic, kind, loc, handler)
                  IN  Run(p.trace \o h.trace, h.exc)
             ELSE Run(p.trace, NoException)

\* ------------------------------------------------------------------------
\* The predicate validator

\* assert_predicate_well_formed, from parameter k on: the TypeError of the
\* first ill-formed parameter, or no exception
RECURSIVE WellFormedFrom(_, _, _, _)
WellFormedFrom(pred_params, bindings, variables_in_scope, k) ==
    IF k > Len(pred_params) THEN NoException
    ELSE LET name == pred_params[k].name
         IN  IF pred_params[k].kind = POSITIONAL_OR_KEYWORD
             THEN IF name \notin DOMAIN bindings
                  THEN [kind |-> "raise", exc |-> "TypeError", msg |-> "not bound", name |-> name]
                  ELSE IF bindings[name] \notin variables_in_scope
                  THEN [kind |-> "raise", exc |-> "TypeError", msg |-> "not in scope", name |-> name]
                  ELSE WellFormedFrom(pred_params, bindings, variables_in_scope, k + 1)
             ELSE [kind |-> "raise", exc |-> "TypeError", msg |-> "is of invalid kind", name |-> name]

assert_predicate_well_formed(pred_params, bindings, variables_in_scope) ==
    WellFormedFrom(pred_params, bindings, variables_in_scope, 1)

\* {n: n for n in names}
Identity(names) == [n \in names |-> n]

\* post.__find_result_param: the predicate parameters no capture or clone set binds
ResultCandidates(pred_params, bindings) == SigNames(pred_params) \ bindings

\* ------------------------------------------------------------------------
\* State

\* the two threads that call set_contract_evaluation_semantics
Threads == {1, 2}

\* a thread outside the call
Idle == [pc |-> "idle"]

\* enable_expensive.__init__; __old_enable is no attribute yet
expensive_scope(enable) == [enable |-> enable, old_enable |-> "unset"]

\* the enable_expensive objects the client holds: enable_expensive() and
\* enable_expensive(False)
ExpensiveObjects == {3, 4}
ExpensiveEnable(o) == o = 3

VARIABLES
    m_signature,    \* argument mapper: the signature given
    m_args,         \* argument mapper: the positional arguments given
    m_kwargs,       \* argument mapper: the named arguments given
    m_result,       \* argument mapper: what the last call returned or raised
    heap,           \* the objects alive: oid -> Cell
    b_candidates,   \* binding resolver: the candidate scopes given, in order
    b_capture,      \* binding resolver: predicate parameter -> source name, by reference
    b_clone,        \* binding resolver: predicate parameter -> source name, by deep copy
    b_result,       \* binding resolver: what resolve_bindings returned or raised
    b_mutations,    \* binding resolver: how many mutations were made so far
    assertion_semantics,        \* __assertion_semantics: AssertionKind -> EvaluationSemantic
    contract_violation_handler, \* __contract_violation_handler
    scopes,         \* the contract_violation_handler objects: handler and old_handler
    entered,        \* the `with` blocks on such objects that are open, innermost last
    f_locals,       \* the locals of the frame that declares the contract
    f_globals,      \* the globals of the frame that declares the contract
    c,              \* the pre or post object, once constructed
    w,              \* what applying the contract to a function returned
    in_with,        \* whether a `with` block on the contract object is open
    stack,          \* the contracts stacked on one function, innermost first
    threads,        \* the threads inside set_contract_evaluation_semantics
    expensive_assertions_enabled,   \* labels.py: __expensive_assertions_enabled
    expensive_scopes,               \* the enable_expensive objects: enable and old_enable
    last            \* the last operation: its events in order and how it ended

mapVars == <<m_signature, m_args, m_kwargs, m_result>>
bindVars == <<b_candidates, b_capture, b_clone, b_result, b_mutations>>
overrideVars == <<scopes, entered>>
registryVars == <<assertion_semantics, contract_violation_handler, overrideVars>>
scopeVars == <<f_locals, f_globals>>
expensiveVars == <<expensive_assertions_enabled, expensive_scopes>>
\* what the operations of the contract core leave alone
otherVars == <<stack, threads, expensiveVars>>
coreVars == <<registryVars, scopeVars, c, w, in_with, otherVars, last>>
vars == <<mapVars, heap, bindVars, coreVars>>

\* ------------------------------------------------------------------------
\* The argument mapper applied to bounded inputs

MapParamNames == {"f", "g", "h"}
MapKwargNames == MapParamNames \cup {"a"}

MapParams == {Param(n, k, d) : n \in MapParamNames, k \in ParamKinds, d \in BOOLEAN}

MapSignatures ==
    {s \in UNION {[1..n -> MapParams] : n \in 0..MaxParams} : ValidSignature(s)}

\* positional argument j is the object j; the named argument of the n-th
\* name is the object 10 + n: every argument is a distinct object
MapArgs == {[j \in 1..n |-> Ref(j)] : n \in 0..MaxArgs}

KwOid(n) == CASE n = "f" -> 11 [] n = "g" -> 12 [] n = "h" -> 13 [] n = "a" -> 14

MapKwargs == {[n \in ks |-> Ref(KwOid(n))] : ks \in SUBSET MapKwargNames}

NoResult == [kind |-> "none"]

map_call ==
    /\ m_result = NoResult
    /\ m_result' = map_function_arguments(m_signature, m_args, m_kwargs)
    /\ UNCHANGED <<m_signature, m_args, m_kwargs, heap, bindVars, coreVars>>

MapNext == map_call

\* ------------------------------------------------------------------------
\* The binding resolver applied to bounded inputs, and mutations of the
\* objects afterwards

BindSources == {"u", "v"}
BindParams == {"p", "q"}

\* the object scope j holds under name n
ScopeOid(j, n) == 2 * (j - 1) + (IF n = "u" THEN 1 ELSE 2)
InnerOid == 2 * MaxScopes + 1

\* every scope's "u" is a list that holds the same nested list
BindHeap ==
    [o \in 1..InnerOid |->
        IF o # InnerOid /\ o % 2 = 1 THEN Cell(0, InnerOid) ELSE Cell(0, 0)]

BindCandidates ==
    UNION {{[j \in 1..n |-> [s \in ks[j] |-> Ref(ScopeOid(j, s))]] :
              ks \in [1..n -> SUBSET BindSources]} : n \in 1..MaxScopes}

\* a capture or clone dict: some predicate parameters, each with a source
\* name; "w" is in no scope
BindDicts ==
    UNION {[ps -> BindSources \cup {"w"}] : ps \in SUBSET BindParams}

\* the objects reachable through the candidate scopes
ScopeReach(candidates, h) ==
    UNION {Reach(candidates[j][n], h) : <<j, n>> \in
             {jn \in (DOMAIN candidates) \X BindSources : jn[2] \in DOMAIN candidates[jn[1]]}}

\* the objects reachable through the resolved bindings
BoundReach(result, h) ==
    IF result.kind = "ok"
    THEN UNION {Reach(result.kwargs[k], h) : k \in DOMAIN result.kwargs}
    ELSE {}

bind_resolve ==
    /\ b_result = NoResult
    /\ LET r == resolve_bindings(b_candidates, b_capture, b_clone, heap)
       IN  IF r.kind = "ok"
           THEN /\ b_result' = [kind |-> "ok", kwargs |-> r.kwargs]
                /\ heap' = r.heap
           ELSE /\ \E n \in r.names : b_result' = [kind |-> "ValueError", name |-> n]
                /\ heap' = heap
    /\ UNCHANGED <<mapVars, coreVars, b_candidates, b_capture, b_clone, b_mutations>>

\* user code (the function body, the predicate, the caller) assigns to an
\* element of a list it can reach: through a scope or through a bound value
bind_mutate(o) ==
    /\ b_mutations < MaxMutations
    /\ o \in ScopeReach(b_candidates, heap) \cup BoundReach(b_result, heap)
    /\ heap' = [heap EXCEPT ![o].val = 1 - @]
    /\ b_mutations' = b_mutations + 1
    /\ UNCHANGED <<mapVars, coreVars, b_candidates, b_capture, b_clone, b_result>>

BindNext ==
    \/ bind_resolve
    \/ \E o \in DOMAIN heap : bind_mutate(o)

\* ------------------------------------------------------------------------
\* The registry of evaluation semantics and the violation handler

ArgNone == [tag |-> "None"]
ArgSemantic(sem) == [tag |-> "semantic", semantic |-> sem]
ArgTable(t) == [tag |-> "dict", table |-> t]

\* set_contract_evaluation_semantics(default, pre, post): the table it leaves
set_semantics(table, default, pre, post) ==
    LET d == CASE default.tag = "None" -> table
               [] default.tag = "semantic" -> [k \in AssertionKind |-> default.semantic]
               [] default.tag = "dict" -> default.table
        pre1 == IF pre.tag = "None" THEN d["pre"] ELSE pre.semantic
        post1 == IF post.tag = "None" THEN d["post"] ELSE post.semantic
    IN  [table EXCEPT !["pre"] = pre1, !["post"] = post1]

\* get_contract_evaluation_semantic(kind)
get_contract_evaluation_semantic(table, kind) == table[kind]

\* the parameters set_contract_evaluation_semantics declares
set_semantics_params == {"default", "pre", "post"}

\* contract_evaluation_semantics.__enter__: the call of
\* set_contract_evaluation_semantics with the keywords given; Python raises
\* TypeError for a keyword that names no parameter
semantics_enter(table, keywords) ==
    IF ~(DOMAIN keywords \subseteq set_semantics_params)
    THEN [outcome |-> Raise("TypeError"), table |-> table]
    ELSE [outcome |-> Return("self"),
          table |-> set_semantics(table, keywords["default"], keywords["pre"], keywords["post"])]

\* contract_evaluation_semantics.__exit__: old_semantics is what
\* get_contract_evaluation_semantic() returned in __enter__
semantics_exit(table, old_semantics) ==
    set_semantics(table, ArgTable(old_semantics), ArgNone, ArgNone)

\* a function object as a value
Callable(name) == [tag |-> "function", name |-> name]

\* contract_violation_handler.__init__; old_handler is no attribute yet
handler_scope(handler) == [handler |-> handler, old_handler |-> "unset"]

\* the contract_violation_handler objects the client holds: one for each
\* handler
ScopeObjects == {1, 2}
ScopeHandler(o) ==
    IF o = 1 THEN raising_contract_violation_handler ELSE default_contract_violation_handler

\* what a `with` statement does with the error of its body once __exit__ has
\* returned
with_statement(exit_value, exc) ==
    IF exc # NoException /\ exit_value = "False" THEN exc ELSE NoException

\* labels.py: ignore, ignore_postconditions
Labels == {"ignore", "ignore_postconditions"}

apply_label(label, semantic, kind) ==
    CASE label = "ignore" -> ignore
      [] label = "ignore_postconditions" -> IF kind = "post" THEN ignore ELSE semantic

\* for label in labels: semantic = label(semantic, info)
RECURSIVE apply_labels(_, _, _, _)
apply_labels(labels, semantic, kind, k) ==
    IF k > Len(labels) THEN semantic
    ELSE apply_labels(labels, apply_label(labels[k], semantic, kind), kind, k + 1)

\* ------------------------------------------------------------------------
\* The contract objects: pre and post

NoContract == [kind |-> "none"]
NoName == "None"
Unset == [tag |-> "unset"]
NoOp == [op |-> "none", trace |-> <<>>, outcome |-> NoException]


\* the objects the model starts with: two argument objects, the object the
\* enclosing local `a` names (a list holding a nested list), the object the
\* globals `g` and `a` name, and the nested list, which the local `x` names too
CoreHeap ==
    [o \in 1..5 |-> CASE o = 3 -> Cell(3, 5) [] OTHER -> Cell(o, 0)]

CoreLocals == [n \in {"a", "x"} |-> IF n = "a" THEN Ref(3) ELSE Ref(5)]
CoreGlobals == [n \in {"g", "a"} |-> Ref(4)]

\* inspect.getframeinfo(parent_frame), or None without a frame
Location(parent_frame) ==
    IF parent_frame THEN [filename |-> "module.py", lineno |-> 1] ELSE [filename |-> "None"]

\* the scopes behind the call arguments: the declaring frame's locals, then
\* its globals
FrameScopes(parent_frame, locals, globals) ==
    IF parent_frame THEN <<locals, globals>> ELSE <<>>

FrameNames(parent_frame, locals, globals) ==
    IF parent_frame THEN (DOMAIN locals) \cup (DOMAIN globals) ELSE {}

\* the objects kept alive between operations: the starting ones and what the
\* contract object holds in __resolved_kwargs
Collect(h, contract) ==
    LET held == IF contract.kind = "post" /\ contract.resolved_kwargs # Unset
                THEN UNION {Reach(contract.resolved_kwargs.map[n], h) :
                              n \in DOMAIN contract.resolved_kwargs.map}
                ELSE {}
    IN  Restrict(h, (DOMAIN CoreHeap) \cup held)

\* pre.__init__
pre_object(pred_params, capture, clone, labels, parent_frame, table) ==
    [kind |-> "pre",
     pred_params |-> pred_params,
     capture |-> capture,
     clone |-> clone,
     parent_frame |-> parent_frame,
     semantic |-> apply_labels(labels, get_contract_evaluation_semantic(table, "pre"), "pre", 1)]

\* a search that settles for one of several candidates
find_result_param_any(pred_params, bindings) ==
    LET candidates == ResultCandidates(pred_params, bindings)
    IN  IF candidates = {} THEN Return(NoName)
        ELSE Return(CHOOSE n \in candidates : TRUE)

\* post.__find_result_param: None, the one candidate, or TypeError
find_result_param(pred_params, bindings) ==
    LET candidates == ResultCandidates(pred_params, bindings)
    IN  IF candidates = {} THEN Return(NoName)
        ELSE IF Cardinality(candidates) = 1 THEN Return(CHOOSE n \in candidates : TRUE)
        ELSE [kind |-> "raise", exc |-> "TypeError",
              msg |-> "Unable to determine predicate result parameter", candidates |-> candidates]

\* post.__init__, given the result parameter found
post_object(pred_params, capture_before, capture_after, clone_before, clone_after, labels, parent_frame, table, result_param_name) ==
    [kind |-> "post",
     pred_params |-> pred_params,
     capture_before |-> capture_before,
     capture_after |-> capture_after,
     clone_before |-> clone_before,
     clone_after |-> clone_after,
     parent_frame |-> parent_frame,
     semantic |-> apply_labels(labels, get_contract_evaluation_semantic(table, "post"), "post", 1),
     bindings |-> Merge(Merge(Merge(capture_before, capture_after), clone_before), clone_after),
     result_param_name |-> result_param_name,
     resolved_kwargs |-> Unset]

\* what one run of an operation of the contract leaves: the events, how it
\* ended, the heap and the contract object afterwards
Done(trace, outcome, h, contract) ==
    [trace |-> trace, outcome |-> outcome, heap |-> h, c |-> contract]

\* func(*args, **kwargs): Python binds the arguments, then the body runs and
\* returns a value or raises
BodyOutcomes == {Return(None), Return(Ref(1)), Raise("BodyError")}

call_func(func_sig, args, kwargs, bo) ==
    IF ~PyValidCall(func_sig, args, kwargs)
    THEN Run(<<>>, Raise("TypeError"))
    ELSE Run(<<[ev |-> "body", args |-> args, kwargs |-> kwargs, outcome |-> bo]>>,
             IF bo.kind = "raise" THEN bo ELSE NoException)

BindingError(names) == [kind |-> "raise", exc |-> "ValueError", names |-> names]

\* a decoration that returns func under ignore before it looks at the predicate
pre_wrap_ignore_first(contract, func_sig, locals, globals) ==
    IF contract.semantic = ignore THEN Return("func")
    ELSE LET variables_in_scope == SigNames(func_sig)
                                   \cup FrameNames(contract.parent_frame, locals, globals)
             bindings == Merge(Merge(Identity(SigNames(func_sig)), contract.capture), contract.clone)
             wf == assert_predicate_well_formed(contract.pred_params, bindings, variables_in_scope)
         IN  IF wf # NoException THEN wf ELSE Return("checked_func")

\* a decoration that asks the registry for the semantic of the day
pre_wrap_current(contract, func_sig, locals, globals) ==
    LET variables_in_scope == SigNames(func_sig)
                              \cup FrameNames(contract.parent_frame, locals, globals)
        bindings == Merge(Merge(Identity(SigNames(func_sig)), contract.capture), contract.clone)
        wf == assert_predicate_well_formed(contract.pred_params, bindings, variables_in_scope)
    IN  IF wf # NoException THEN wf
        ELSE IF get_contract_evaluation_semantic(assertion_semantics, "pre") = ignore
        THEN Return("func")
        ELSE Return("checked_func")

\* pre.__call__: the callable returned, or TypeError
pre_wrap(contract, func_sig, locals, globals) ==
    LET variables_in_scope == SigNames(func_sig)
                              \cup FrameNames(contract.parent_frame, locals, globals)
        bindings == Merge(Merge(Identity(SigNames(func_sig)), contract.capture), contract.clone)
        wf == assert_predicate_well_formed(contract.pred_params, bindings, variables_in_scope)
    IN  IF wf # NoException THEN wf
        ELSE IF contract.semantic = ignore THEN Return("func")
        ELSE Return("checked_func")

\* the one element of a set: {e : x \in {v}} is e with x bound to v, a local
\* variable of the code assigned once
The(S) == CHOOSE e \in S : TRUE

\* pre.__call__.checked_func
pre_checked_func(contract, func_sig, args, kwargs, po, bo, handler, locals, globals, h) ==
    The({IF m.kind = "TypeError" THEN Done(<<>>, Raise("TypeError"), h, contract)
         ELSE The({IF r.kind = "ValueError" THEN Done(<<>>, BindingError(r.names), h, contract)
                   ELSE The({IF a.exc # NoException THEN Done(a.trace, a.exc, r.heap, contract)
                             ELSE The({Done(a.trace \o f.trace,
                                            IF f.exc # NoException THEN f.exc ELSE bo,
                                            r.heap, contract) :
                                       f \in {call_func(func_sig, args, kwargs, bo)}}) :
                             a \in {assert_contract(contract.semantic, "pre",
                                                    Location(contract.parent_frame),
                                                    contract.pred_params, r.kwargs, po, handler)}}) :
                   r \in {resolve_bindings(
                             <<m.argsmap>> \o FrameScopes(contract.parent_frame, locals, globals),
                             Merge(Identity(SigNames(contract.pred_params)), contract.capture),
                             contract.clone, h)}}) :
         m \in {map_function_arguments(func_sig, args, kwargs)}})

\* pre.__enter__
pre_enter(contract, po, handler, locals, globals, h) ==
    The({IF r.kind = "ValueError" THEN Done(<<>>, BindingError(r.names), h, contract)
         ELSE The({Done(a.trace, IF a.exc # NoException THEN a.exc ELSE Return("self"),
                        r.heap, contract) :
                   a \in {assert_contract(contract.semantic, "pre",
                                          Location(contract.parent_frame),
                                          contract.pred_params, r.kwargs, po, handler)}}) :
         r \in {resolve_bindings(
                   FrameScopes(contract.parent_frame, locals, globals),
                   Merge(Identity(SigNames(contract.pred_params)), contract.capture),
                   contract.clone, h)}})

\* post.__call__, up to assert_predicate_well_formed: the contract object
\* with the result parameter added to its bindings
post_wrap_bindings(contract) ==
    IF contract.result_param_name # NoName
    THEN [contract EXCEPT !.bindings = Put(@, contract.result_param_name, contract.result_param_name)]
    ELSE contract

\* post.__call__: the callable returned, or TypeError
post_wrap(contract, func_sig, locals, globals) ==
    LET variables_in_scope == SigNames(func_sig)
                              \cup FrameNames(contract.parent_frame, locals, globals)
                              \cup (IF contract.result_param_name # NoName
                                    THEN {contract.result_param_name} ELSE {})
        wf == assert_predicate_well_formed(contract.pred_params,
                                           post_wrap_bindings(contract).bindings, variables_in_scope)
    IN  IF wf # NoException THEN wf
        ELSE IF contract.semantic = ignore THEN Return("func")
        ELSE Return("checked_func")

\* a wrapper that notes the result parameter in the before set of the object
post_check_result_before(contract, candidate_bindings, before, result, trace, po, handler) ==
    The({The({IF after.kind = "ValueError"
              THEN Done(trace, BindingError(after.names), before.heap, contract1)
              ELSE The({Done(trace \o a.trace,
                             IF a.exc # NoException THEN a.exc ELSE Return(result),
                             after.heap, contract1) :
                        a \in {assert_contract(contract.semantic, "post",
                                               Location(contract.parent_frame),
                                               contract.pred_params,
                                               Merge(before.kwargs, after.kwargs), po, handler)}}) :
              after \in {resolve_bindings(
                           IF contract.result_param_name # NoName
                           THEN <<[n \in {contract.result_param_name} |-> result]>>
                                \o candidate_bindings
                           ELSE candidate_bindings,
                           contract2.capture_after, contract.clone_after, before.heap)}}) :
         contract2 \in {IF contract.result_param_name # NoName
                        THEN [contract EXCEPT !.capture_after =
                                Put(@, contract.result_param_name, contract.result_param_name)]
                        ELSE contract},
         contract1 \in {IF contract.result_param_name # NoName
                        THEN [contract EXCEPT !.capture_before =
                                Put(@, contract.result_param_name, contract.result_param_name)]
                        ELSE contract}})

\* post.__call__.checked_func, from `referenced_bindings = self.__capture_after`
\* on. referenced_bindings is self.__capture_after itself: the assignment of
\* the result parameter stays in the object
post_check_result(contract, candidate_bindings, before, result, trace, po, handler) ==
    The({The({IF after.kind = "ValueError"
              THEN Done(trace, BindingError(after.names), before.heap, contract1)
              ELSE The({Done(trace \o a.trace,
                             IF a.exc # NoException THEN a.exc ELSE Return(result),
                             after.heap, contract1) :
                        a \in {assert_contract(contract.semantic, "post",
                                               Location(contract.parent_frame),
                                               contract.pred_params,
                                               Merge(before.kwargs, after.kwargs), po, handler)}}) :
              after \in {resolve_bindings(
                           IF contract.result_param_name # NoName
                           THEN <<[n \in {contract.result_param_name} |-> result]>>
                                \o candidate_bindings
                           ELSE candidate_bindings,
                           contract1.capture_after, contract.clone_after, before.heap)}}) :
         contract1 \in {IF contract.result_param_name # NoName
                        THEN [contract EXCEPT !.capture_after =
                                Put(@, contract.result_param_name, contract.result_param_name)]
                        ELSE contract}})

\* a wrapper that checks the postcondition also when func raised
post_checked_func_always_check(contract, func_sig, args, kwargs, po, bo, handler, locals, globals, h) ==
    The({IF m.kind = "TypeError" THEN Done(<<>>, Raise("TypeError"), h, contract)
         ELSE The({The({IF before.kind = "ValueError"
                        THEN Done(<<>>, BindingError(before.names), h, contract)
                        ELSE The({post_check_result(contract, candidate_bindings, before,
                                                    IF f.exc # NoException THEN None ELSE bo.value,
                                                    f.trace, po, handler) :
                                  f \in {call_func(func_sig, args, kwargs, bo)}}) :
                        before \in {resolve_bindings(candidate_bindings, contract.capture_before,
                                                     contract.clone_before, h)}}) :
                   candidate_bindings \in
                       {<<m.argsmap>> \o FrameScopes(contract.parent_frame, locals, globals)}}) :
         m \in {map_function_arguments(func_sig, args, kwargs)}})

\* post.__call__.checked_func
post_checked_func(contract, func_sig, args, kwargs, po, bo, handler, locals, globals, h) ==
    The({IF m.kind = "TypeError" THEN Done(<<>>, Raise("TypeError"), h, contract)
         ELSE The({The({IF before.kind = "ValueError"
                        THEN Done(<<>>, BindingError(before.names), h, contract)
                        ELSE The({IF f.exc # NoException
                                  THEN Done(f.trace, f.exc, before.heap, contract)
                                  ELSE post_check_result(contract, candidate_bindings, before,
                                                         bo.value, f.trace, po, handler) :
                                  f \in {call_func(func_sig, args, kwargs, bo)}}) :
                        before \in {resolve_bindings(candidate_bindings, contract.capture_before,
                                                     contract.clone_before, h)}}) :
                   candidate_bindings \in
                       {<<m.argsmap>> \o FrameScopes(contract.parent_frame, locals, globals)}}) :
         m \in {map_function_arguments(func_sig, args, kwargs)}})

\* post.__enter__
post_enter(contract, locals, globals, h) ==
    IF contract.result_param_name # NoName
    THEN Done(<<>>, Raise("TypeError"), h, contract)
    ELSE The({IF r.kind = "ValueError" THEN Done(<<>>, BindingError(r.names), h, contract)
              ELSE Done(<<>>, Return("self"), r.heap,
                        [contract EXCEPT !.resolved_kwargs = [tag |-> "set", map |-> r.kwargs]]) :
              r \in {resolve_bindings(FrameScopes(contract.parent_frame, locals, globals),
                                      contract.capture_before, contract.clone_before, h)}})

\* post.__exit__
post_exit(contract, po, handler, locals, globals, h) ==
    The({IF r.kind = "ValueError" THEN Done(<<>>, BindingError(r.names), h, contract)
         ELSE The({The({Done(a.trace, IF a.exc # NoException THEN a.exc ELSE Return("False"),
                             r.heap,
                             [contract EXCEPT !.resolved_kwargs = [tag |-> "set", map |-> resolved]]) :
                        a \in {assert_contract(contract.semantic, "post",
                                               Location(contract.parent_frame),
                                               contract.pred_params, resolved, po, handler)}}) :
                   resolved \in {Merge(contract.resolved_kwargs.map, r.kwargs)}}) :
         r \in {resolve_bindings(FrameScopes(contract.parent_frame, locals, globals),
                                 contract.capture_after, contract.clone_after, h)}})

\* ------------------------------------------------------------------------
\* The inputs of the contract operations

CoreParam(n) == Param(n, POSITIONAL_OR_KEYWORD, FALSE)

\* the function decorated: f() or f(y, x=...)
FuncSigs == {<<>>, <<Param("y", POSITIONAL_OR_KEYWORD, FALSE), Param("x", POSITIONAL_OR_KEYWORD, TRUE)>>}

\* the predicate's parameters: a parameter of f, a name of the enclosing
\* scopes, a name of the predicate's own; the predicate is called with keyword
\* arguments only, so one order of the names stands for all
PredNames == <<"x", "a", "p">>

RECURSIVE SubSeqs(_)
SubSeqs(s) ==
    IF s = <<>> THEN {<<>>}
    ELSE LET rest == SubSeqs(Tail(s))
         IN  rest \cup {<<Head(s)>> \o t : t \in rest}

PredSigs ==
    {[j \in DOMAIN s |-> CoreParam(s[j])] : s \in {t \in SubSeqs(PredNames) : Len(t) <= MaxPredParams}}

\* capture and clone sets: a name as itself, or the predicate's own name for
\* a global or for a name no scope holds
CaptureSets ==
    {EmptyDict, Identity({"x"}), Identity({"a"}), [n \in {"p"} |-> "g"], [n \in {"p"} |-> "q"]}

\* the sets one contract is given bind parameters of the predicate, each
\* parameter in one set at most
ContractBindings(n, pred_params) ==
    {ds \in [1..n -> CaptureSets] :
        /\ \A j, k \in 1..n : j # k => (DOMAIN ds[j]) \cap (DOMAIN ds[k]) = {}
        /\ \A j \in 1..n : DOMAIN ds[j] \subseteq SigNames(pred_params)}

LabelLists == {<<>>, <<"ignore">>, <<"ignore_postconditions">>}

CallArgs == {<<>>, <<Ref(1)>>}
CallKwargs == {EmptyDict, [n \in {"x"} |-> Ref(2)]}

Orderings(S) ==
    {f \in [1..Cardinality(S) -> S] : \A j, k \in 1..Cardinality(S) : j # k => f[j] # f[k]}

\* the records `last` may hold after a run: ValueError names one of the
\* sources it may name; the TypeError of __find_result_param joins the
\* candidates in the order the set yields them
Finalize(op, d) ==
    IF d.outcome.kind = "raise" /\ d.outcome.exc = "ValueError"
    THEN {[op |-> op, trace |-> d.trace,
           outcome |-> [kind |-> "raise", exc |-> "ValueError", name |-> n]] : n \in d.outcome.names}
    ELSE {[op |-> op, trace |-> d.trace, outcome |-> d.outcome]}

\* ------------------------------------------------------------------------
\* The operations

set_contract_evaluation_semantics(default, pre, post) ==
    /\ assertion_semantics' = set_semantics(assertion_semantics, default, pre, post)
    /\ last' = [op |-> "set_contract_evaluation_semantics", trace |-> <<>>, outcome |-> Return(None),
                default |-> default, pre |-> pre, post |-> post]
    /\ UNCHANGED <<otherVars, mapVars, heap, bindVars, contract_violation_handler, overrideVars, scopeVars, c, w, in_with>>

set_contract_violation_handler(handler) ==
    /\ contract_violation_handler' = handler
    /\ last' = [op |-> "set_contract_violation_handler", trace |-> <<>>, outcome |-> Return(None)]
    /\ UNCHANGED <<otherVars, mapVars, heap, bindVars, assertion_semantics, overrideVars, scopeVars, c, w, in_with>>

\* c = pre(predicate, capture=..., clone=..., labels=...)
pre_init(pred_params, capture, clone, labels, parent_frame) ==
    /\ c = NoContract
    /\ c' = pre_object(pred_params, capture, clone, labels, parent_frame, assertion_semantics)
    /\ last' = [op |-> "pre.__init__", trace |-> <<>>, outcome |-> Return("self"), labels |-> labels]
    /\ UNCHANGED <<otherVars, mapVars, heap, bindVars, registryVars, scopeVars, w, in_with>>

\* c = post(predicate, capture_before=..., ...)
post_init(pred_params, capture_before, capture_after, clone_before, clone_after, labels, parent_frame) ==
    /\ c = NoContract
    /\ \E bindings \in {Merge(Merge(Merge(capture_before, capture_after), clone_before), clone_after)} :
       \E found \in {find_result_param(pred_params, DOMAIN bindings)} :
          IF found.kind = "raise"
          THEN /\ c' = c
               /\ \E order \in Orderings(found.candidates) :
                     last' = [op |-> "post.__init__", trace |-> <<>>,
                              outcome |-> [kind |-> "raise", exc |-> "TypeError",
                                           msg |-> found.msg, candidates |-> order],
                              pred_params |-> pred_params, bindings |-> bindings,
                              labels |-> labels]
          ELSE /\ c' = post_object(pred_params, capture_before, capture_after, clone_before,
                                   clone_after, labels, parent_frame, assertion_semantics,
                                   found.value)
               /\ last' = [op |-> "post.__init__", trace |-> <<>>, outcome |-> Return("self"),
                           pred_params |-> pred_params, bindings |-> bindings,
                           labels |-> labels]
    /\ UNCHANGED <<otherVars, mapVars, heap, bindVars, registryVars, scopeVars, w, in_with>>

\* w = c(func)
wrap(func_sig) ==
    /\ c # NoContract
    /\ \E r \in {IF c.kind = "pre" THEN pre_wrap(c, func_sig, f_locals, f_globals)
                ELSE post_wrap(c, func_sig, f_locals, f_globals)} :
          /\ w' = IF r.kind = "return"
                   THEN [state |-> r.value, func_sig |-> func_sig]
                   ELSE [state |-> "none"]
          /\ last' = [op |-> "__call__", trace |-> <<>>, outcome |-> r, func_sig |-> func_sig]
    /\ c' = IF c.kind = "post" THEN post_wrap_bindings(c) ELSE c
    /\ UNCHANGED <<otherVars, mapVars, heap, bindVars, registryVars, scopeVars, in_with>>

\* w(*args, **kwargs); `again` notes that the operation before was the same
\* call
call(args, kwargs, po, bo) ==
    /\ w.state # "none"
    /\ \E again \in {/\ w.state = "checked_func"
                        /\ last.op = "checked_func"
                        /\ last.args = args
                        /\ last.kwargs = kwargs},
          d \in {IF w.state = "func"
                THEN LET f == call_func(w.func_sig, args, kwargs, bo)
                     IN  Done(f.trace, IF f.exc # NoException THEN f.exc ELSE bo, Collect(heap, c), c)
                ELSE IF c.kind = "pre"
                THEN pre_checked_func(c, w.func_sig, args, kwargs, po, bo,
                                      contract_violation_handler, f_locals, f_globals, Collect(heap, c))
                ELSE post_checked_func(c, w.func_sig, args, kwargs, po, bo,
                                       contract_violation_handler, f_locals, f_globals, Collect(heap, c))} :
          /\ last' \in {r @@ [args |-> args, kwargs |-> kwargs, again |-> again] :
                             r \in Finalize("checked_func", d)}
          /\ heap' = d.heap
          /\ c' = d.c
    /\ UNCHANGED <<otherVars, mapVars, bindVars, registryVars, scopeVars, w, in_with>>

\* with c: ...   (scope entry)
enter(po) ==
    /\ c # NoContract
    /\ ~in_with
    /\ \E d \in {IF c.kind = "pre"
                THEN pre_enter(c, po, contract_violation_handler, f_locals, f_globals,
                               Collect(heap, NoContract))
                ELSE post_enter(c, f_locals, f_globals, Collect(heap, NoContract))} :
          /\ last' \in Finalize("__enter__", d)
          /\ heap' = d.heap
          /\ c' = d.c
          /\ in_with' = (d.outcome.kind = "return")
    /\ UNCHANGED <<otherVars, mapVars, bindVars, registryVars, scopeVars, w>>

\* with c: ...   (scope exit); pre.__exit__ does nothing
exit(po) ==
    /\ in_with
    /\ \E d \in {IF c.kind = "pre"
                THEN Done(<<>>, Return("False"), Collect(heap, c), c)
                ELSE post_exit(c, po, contract_violation_handler, f_locals, f_globals,
                               Collect(heap, c))} :
          /\ last' \in Finalize("__exit__", d)
          /\ heap' = d.heap
          /\ c' = d.c
    /\ in_with' = FALSE
    /\ UNCHANGED <<otherVars, mapVars, bindVars, registryVars, scopeVars, w>>

\* with cm: ...   (entry); `registered` notes the handler the block found
handler_enter(o) ==
    /\ Len(entered) < MaxNesting
    /\ scopes' = [scopes EXCEPT ![o].old_handler = contract_violation_handler]
    /\ contract_violation_handler' = scopes[o].handler
    /\ entered' = Append(entered, [scope |-> o, registered |-> contract_violation_handler,
                                   enabled |-> expensive_assertions_enabled])
    /\ last' = [op |-> "contract_violation_handler.__enter__", trace |-> <<>>,
                outcome |-> Return("self")]
    /\ UNCHANGED <<otherVars, mapVars, heap, bindVars, assertion_semantics, scopeVars, c, w, in_with>>

\* with cm: ...   (exit): the body has ended with exc, or with no error
handler_exit(exc) ==
    /\ entered # <<>>
    /\ entered[Len(entered)].scope \in ScopeObjects
    /\ contract_violation_handler' = scopes[entered[Len(entered)].scope].old_handler
    /\ entered' = SubSeq(entered, 1, Len(entered) - 1)
    /\ last' = [op |-> "contract_violation_handler.__exit__", trace |-> <<>>,
                outcome |-> Return("False"), exc |-> exc,
                propagated |-> with_statement("False", exc)]
    /\ UNCHANGED <<otherVars, mapVars, heap, bindVars, assertion_semantics, scopes, scopeVars, c, w, in_with>>

\* with contract_evaluation_semantics(default, pre, post, assertion): pass
\* __exit__ runs only if __enter__ returned. get_contract_evaluation_semantic()
\* returns the dict of the registry itself, which the setter updates in
\* place: at __exit__ old_semantics is the table as it is then
semantics_with(default, pre, post, assertion) ==
    /\ \E keywords \in {[k \in {"default", "pre", "post", "assertion"} |->
                            CASE k = "default" -> default [] k = "pre" -> pre
                              [] k = "post" -> post [] k = "assertion" -> assertion]} :
       \E r \in {semantics_enter(assertion_semantics, keywords)} :
          /\ assertion_semantics' = IF r.outcome.kind = "raise" THEN r.table
                                    ELSE semantics_exit(r.table, r.table)
          /\ last' = [op |-> "with contract_evaluation_semantics", trace |-> <<>>,
                      outcome |-> IF r.outcome.kind = "raise" THEN r.outcome ELSE Return(None),
                      keywords |-> keywords, inside |-> r.table]
    /\ UNCHANGED <<otherVars, mapVars, heap, bindVars, contract_violation_handler, overrideVars,
                   scopeVars, c, w, in_with>>

\* del name, at the module level of the frame that declared the contract
del_global(name) ==
    /\ name \in DOMAIN f_globals
    /\ f_globals' = Restrict(f_globals, (DOMAIN f_globals) \ {name})
    /\ last' = [op |-> "del", trace |-> <<>>, outcome |-> NoException]
    /\ UNCHANGED <<otherVars, mapVars, heap, bindVars, registryVars, f_locals, c, w, in_with>>

\* The client program: it configures the registry and the handler, declares
\* one contract, and then decorates functions and calls them, or enters and
\* leaves a with block
Frames == {TRUE}

Next ==
    \/ /\ c = NoContract
       /\ \E sem \in EvaluationSemantic :
             set_contract_evaluation_semantics(ArgSemantic(sem), ArgNone, ArgNone)
    \/ /\ c = NoContract
       /\ \E handler \in Handlers : set_contract_violation_handler(handler)
    \/ /\ c = NoContract
       /\ \E pp \in PredSigs, labels \in LabelLists, frame \in Frames :
             \E ds \in ContractBindings(2, pp) : pre_init(pp, ds[1], ds[2], labels, frame)
    \/ /\ c = NoContract
       /\ \E pp \in PredSigs, labels \in LabelLists, frame \in Frames :
             \E ds \in ContractBindings(4, pp) :
                post_init(pp, ds[1], ds[2], ds[3], ds[4], labels, frame)
    \/ /\ ~in_with
       /\ \E func_sig \in FuncSigs : wrap(func_sig)
    \/ /\ ~in_with
       /\ \E args \in CallArgs, kwargs \in CallKwargs, po \in PredicateOutcomes, bo \in BodyOutcomes :
             call(args, kwargs, po, bo)
    \/ \E po \in PredicateOutcomes : enter(po)
    \/ \E po \in PredicateOutcomes : exit(po)

\* ------------------------------------------------------------------------
\* Specifications

\* the registry as contract_violation_handler.py builds it, no contract
\* declared yet
Init ==
    /\ m_signature = <<>>
    /\ m_args = <<>>
    /\ m_kwargs = EmptyDict
    /\ m_result = NoResult
    /\ heap = CoreHeap
    /\ b_candidates = <<>>
    /\ b_capture = EmptyDict
    /\ b_clone = EmptyDict
    /\ b_result = NoResult
    /\ b_mutations = 0
    /\ assertion_semantics = [k \in AssertionKind |-> check]
    /\ contract_violation_handler = default_contract_violation_handler
    /\ scopes = [o \in ScopeObjects |-> handler_scope(ScopeHandler(o))]
    /\ entered = <<>>
    /\ f_locals = CoreLocals
    /\ f_globals = CoreGlobals
    /\ c = NoContract
    /\ w = [state |-> "none"]
    /\ in_with = FALSE
    /\ stack = <<>>
    /\ threads = [t \in Threads |-> Idle]
    /\ expensive_assertions_enabled = TRUE
    /\ expensive_scopes = [o \in ExpensiveObjects |-> expensive_scope(ExpensiveEnable(o))]
    /\ last = NoOp

Spec == Init /\ [][Next]_vars

\* map_function_arguments alone, on every signature and call of the bounds
MapInit ==
    /\ m_signature \in MapSignatures
    /\ m_args \in MapArgs
    /\ m_kwargs \in MapKwargs
    /\ m_result = NoResult
    /\ heap = EmptyDict
    /\ b_candidates = <<>>
    /\ b_capture = EmptyDict
    /\ b_clone = EmptyDict
    /\ b_result = NoResult
    /\ b_mutations = 0
    /\ assertion_semantics = [k \in AssertionKind |-> check]
    /\ contract_violation_handler = default_contract_violation_handler
    /\ scopes = [o \in ScopeObjects |-> handler_scope(ScopeHandler(o))]
    /\ entered = <<>>
    /\ f_locals = EmptyDict
    /\ f_globals = EmptyDict
    /\ c = NoContract
    /\ w = [state |-> "none"]
    /\ in_with = FALSE
    /\ stack = <<>>
    /\ threads = [t \in Threads |-> Idle]
    /\ expensive_assertions_enabled = TRUE
    /\ expensive_scopes = [o \in ExpensiveObjects |-> expensive_scope(ExpensiveEnable(o))]
    /\ last = NoOp

SpecMap == MapInit /\ [][MapNext]_vars

\* resolve_bindings alone, on every choice of scopes and of capture and clone
\* sets of the bounds
BindInit ==
    /\ m_signature = <<>>
    /\ m_args = <<>>
    /\ m_kwargs = EmptyDict
    /\ m_result = NoResult
    /\ heap = BindHeap
    /\ b_candidates \in BindCandidates
    /\ b_capture \in BindDicts
    /\ b_clone \in BindDicts
    /\ b_result = NoResult
    /\ b_mutations = 0
    /\ assertion_semantics = [k \in AssertionKind |-> check]
    /\ contract_violation_handler = default_contract_violation_handler
    /\ scopes = [o \in ScopeObjects |-> handler_scope(ScopeHandler(o))]
    /\ entered = <<>>
    /\ f_locals = EmptyDict
    /\ f_globals = EmptyDict
    /\ c = NoContract
    /\ w = [state |-> "none"]
    /\ in_with = FALSE
    /\ stack = <<>>
    /\ threads = [t \in Threads |-> Idle]
    /\ expensive_assertions_enabled = TRUE
    /\ expensive_scopes = [o \in ExpensiveObjects |-> expensive_scope(ExpensiveEnable(o))]
    /\ last = NoOp

SpecBind == BindInit /\ [][BindNext]_vars

\* a client that keeps changing the registry after it has declared a contract
\* and decorated a function: the contract's predicate takes no parameter
SemanticArgs == {ArgNone} \cup {ArgSemantic(sem) : sem \in EvaluationSemantic}

DeclNext ==
    \/ \E default \in SemanticArgs, pre \in SemanticArgs, post \in SemanticArgs :
          set_contract_evaluation_semantics(default, pre, post)
    \/ \E labels \in LabelLists : pre_init(<<>>, EmptyDict, EmptyDict, labels, TRUE)
    \/ \E labels \in LabelLists :
          post_init(<<>>, EmptyDict, EmptyDict, EmptyDict, EmptyDict, labels, TRUE)
    \/ wrap(<<>>)
    \/ \E po \in PredicateOutcomes, bo \in BodyOutcomes : call(<<>>, EmptyDict, po, bo)

SpecDecl == Init /\ [][DeclNext]_vars

\* a client of the registry alone: it sets the semantics of all kinds or of
\* one, sets the handler, and opens and closes scoped overrides
RegSemanticArgs == {ArgNone, ArgSemantic(ignore), ArgSemantic(enforce)}

SetterArgs ==
    {args \in [{"default", "pre", "post"} -> RegSemanticArgs] :
        Cardinality({k \in DOMAIN args : args[k] # ArgNone}) <= 1}

BodyErrors == {NoException, Raise("BodyError")}

RegNext ==
    \/ \E args \in SetterArgs :
          set_contract_evaluation_semantics(args["default"], args["pre"], args["post"])
    \/ \E handler \in Handlers : set_contract_violation_handler(handler)
    \/ \E o \in ScopeObjects : handler_enter(o)
    \/ \E exc \in BodyErrors : handler_exit(exc)
    \/ \E args \in SetterArgs, assertion \in RegSemanticArgs :
          semantics_with(args["default"], args["pre"], args["post"], assertion)

SpecReg == Init /\ [][RegNext]_vars

\* a client that declares contracts whose predicates have parameters of every
\* kind, and applies them: lambda x, /: ..., lambda *x: ..., lambda *, x: ...
KindedPredSigs ==
    {s \in UNION {[1..n -> {Param(name, kind, FALSE) : name \in {"x", "a"}, kind \in ParamKinds}] :
                    n \in 0..MaxPredParams} : ValidSignature(s)}

ValidNext ==
    \/ /\ c = NoContract
       /\ \E sem \in EvaluationSemantic :
             set_contract_evaluation_semantics(ArgSemantic(sem), ArgNone, ArgNone)
    \/ \E pp \in KindedPredSigs :
          \E ds \in ContractBindings(2, pp) : pre_init(pp, ds[1], ds[2], <<>>, TRUE)
    \/ \E pp \in KindedPredSigs :
          \E ds \in ContractBindings(4, pp) :
             post_init(pp, ds[1], ds[2], ds[3], ds[4], <<>>, TRUE)
    \/ \E func_sig \in FuncSigs : wrap(func_sig)

SpecValid == Init /\ [][ValidNext]_vars

\* a client that deletes a global after it has decorated f(): the contract's
\* predicate has the one parameter p, which a capture or clone set binds to
\* the global g, or which is the result parameter
ScopeNext ==
    \/ /\ c = NoContract
       /\ \E sem \in EvaluationSemantic :
             set_contract_evaluation_semantics(ArgSemantic(sem), ArgNone, ArgNone)
    \/ \E ds \in ContractBindings(2, <<CoreParam("p")>>) :
          pre_init(<<CoreParam("p")>>, ds[1], ds[2], <<>>, TRUE)
    \/ \E ds \in ContractBindings(4, <<CoreParam("p")>>) :
          post_init(<<CoreParam("p")>>, ds[1], ds[2], ds[3], ds[4], <<>>, TRUE)
    \/ wrap(<<>>)
    \/ \E po \in PredicateOutcomes, bo \in BodyOutcomes : call(<<>>, EmptyDict, po, bo)
    \/ del_global("g")

SpecScope == Init /\ [][ScopeNext]_vars

\* ------------------------------------------------------------------------
\* The rendering of a violation

\* a text is the sequence of the pieces it was concatenated from
DetectionMode == {"implicit", "predicate_false", "evaluation_exception"}

NoEvaluationException == "None"

kind_strings == [pre |-> "Precondition", post |-> "Postcondition", assertion |-> "Assertion"]

Traceback(filename, lineno, code_context) ==
    [filename |-> filename, lineno |-> lineno, code_context |-> code_context]

\* "\n".join(lines)
RECURSIVE join(_)
join(lines) ==
    IF Len(lines) = 0 THEN <<>>
    ELSE IF Len(lines) = 1 THEN lines
    ELSE <<lines[1], "\n">> \o join(Tail(lines))

\* traceback.format_exception: the lines that describe the exception
format_exception(exc) == <<"Traceback (most recent call last):", exc>>

ContractViolation__init__(comment, detection_mode, evaluation_exception, kind, location, semantic) ==
    [comment |-> comment,
     detection_mode |-> detection_mode,
     evaluation_exception |-> evaluation_exception,
     is_terminating |-> semantic \in {enforce, quick_enforce},
     kind |-> kind,
     location |-> location,
     semantic |-> semantic]

unrecoverable_note == "\nThis contract violation is unrecoverable."

\* a rendering that adds the note to every violation
ContractViolation__str__always_note(self) ==
    <<kind_strings[self.kind], " violation at ", self.location.filename, ":", ToString(self.location.lineno)>>
        \o (IF self.comment # "" THEN <<": ", self.comment>> ELSE <<>>)
        \o <<unrecoverable_note>>

ContractViolation__str__(self) ==
    <<kind_strings[self.kind], " violation at ", self.location.filename, ":", ToString(self.location.lineno)>>
        \o (IF self.comment # "" THEN <<": ", self.comment>> ELSE <<>>)
        \o (IF Len(self.location.code_context) > 0
            THEN <<"\nContext:\n">> \o join(self.location.code_context)
            ELSE <<>>)
        \o (IF self.evaluation_exception # NoEvaluationException
            THEN <<"\nDue to exception escaped from contract predicate:\n">>
                    \o join(format_exception(self.evaluation_exception))
            ELSE <<>>)
        \o (IF self.is_terminating THEN <<unrecoverable_note>> ELSE <<>>)

Comments == {"", "comment", "something something"}

Tracebacks ==
    {Traceback("foo.py", 10, <<>>),
     Traceback("foo.py", 10, <<"@pre(foobar)">>),
     Traceback("bar.py", 42, <<"@post(", "foobar)">>)}

\* how a violation was detected, and the exception that goes with it
Detections ==
    {<<"implicit", NoEvaluationException>>,
     <<"predicate_false", NoEvaluationException>>,
     <<"evaluation_exception", "ValueError: Crazy stuff happened">>}

\* str(ContractViolation(...))
str_contract_violation(comment, detection, kind, location, semantic) ==
    /\ \E self \in {ContractViolation__init__(comment, detection[1], detection[2],
                                              kind, location, semantic)} :
          last' = [op |-> "str", trace |-> <<>>, self |-> self,
                   outcome |-> Return(ContractViolation__str__(self))]
    /\ UNCHANGED <<mapVars, bindVars, registryVars, scopeVars, heap, c, w, in_with, otherVars>>

RenderNext ==
    \E comment \in Comments, detection \in Detections, kind \in AssertionKind,
       location \in Tracebacks, semantic \in EvaluationSemantic :
          str_contract_violation(comment, detection, kind, location, semantic)

SpecRender == Init /\ [][RenderNext]_vars

\* ------------------------------------------------------------------------
\* Contracts stacked on one function

\* how many contracts one function carries at most
MaxStack == 2

\* the events of the callable a layer wraps take the place of the layer's
\* body event: the layer's func is the callable the layer below returned
RECURSIVE Splice(_, _)
Splice(trace, inner) ==
    IF trace = <<>> THEN <<>>
    ELSE IF Head(trace).ev = "body" THEN inner \o Splice(Tail(trace), inner)
    ELSE <<Head(trace)>> \o Splice(Tail(trace), inner)

\* the call of the callable that layer k returned: func itself below the
\* first layer and for a layer that returned func; else the layer's
\* checked_func, which maps the arguments with the signature of the function
\* (inspect.signature follows what functools.wraps leaves) and then calls the
\* callable of the layer below
RECURSIVE stacked_call(_, _, _, _, _, _, _, _, _, _, _)
stacked_call(layers, k, func_sig, args, kwargs, pos, bo, handler, locals, globals, h) ==
    IF k = 0
    THEN The({[trace |-> f.trace, outcome |-> IF f.exc # NoException THEN f.exc ELSE bo] :
              f \in {call_func(func_sig, args, kwargs, bo)}})
    ELSE IF layers[k].state = "func"
    THEN stacked_call(layers, k - 1, func_sig, args, kwargs, pos, bo, handler, locals, globals, h)
    ELSE The({The({[trace |-> <<[ev |-> "map", layer |-> k, signature |-> func_sig,
                                 args |-> args, kwargs |-> kwargs]>>
                              \o Splice(d.trace, inner.trace),
                    outcome |-> d.outcome] :
                   d \in {IF layers[k].c.kind = "pre"
                          THEN pre_checked_func(layers[k].c, func_sig, args, kwargs, pos[k],
                                                inner.outcome, handler, locals, globals, h)
                          ELSE post_checked_func(layers[k].c, func_sig, args, kwargs, pos[k],
                                                 inner.outcome, handler, locals, globals, h)}}) :
              inner \in {stacked_call(layers, k - 1, func_sig, args, kwargs, pos, bo,
                                      handler, locals, globals, h)}})

\* def f(...): ...
stack_def(func_sig) ==
    /\ w.state = "none"
    /\ w' = [state |-> "func", func_sig |-> func_sig]
    /\ last' = [op |-> "def", trace |-> <<>>, outcome |-> NoException]
    /\ UNCHANGED <<mapVars, heap, bindVars, registryVars, scopeVars, c, in_with, stack, threads, expensiveVars>>

\* f = pre(lambda: ..., labels=...)(f)  or  f = post(lambda: ..., labels=...)(f)
stack_apply(kind, labels) ==
    /\ w.state # "none"
    /\ Len(stack) < MaxStack
    /\ \E contract \in {IF kind = "pre"
                       THEN pre_object(<<>>, EmptyDict, EmptyDict, labels, TRUE, assertion_semantics)
                       ELSE post_object(<<>>, EmptyDict, EmptyDict, EmptyDict, EmptyDict, labels,
                                        TRUE, assertion_semantics, NoName)} :
       \E r \in {IF kind = "pre" THEN pre_wrap(contract, w.func_sig, f_locals, f_globals)
                ELSE post_wrap(contract, w.func_sig, f_locals, f_globals)} :
          /\ stack' = Append(stack, [c |-> IF kind = "post" THEN post_wrap_bindings(contract)
                                           ELSE contract,
                                     state |-> r.value])
          /\ last' = [op |-> "__call__", trace |-> <<>>, outcome |-> r, func_sig |-> w.func_sig]
    /\ UNCHANGED <<mapVars, heap, bindVars, registryVars, scopeVars, c, w, in_with, threads, expensiveVars>>

\* f(*args, **kwargs), a call the function's signature accepts
stack_call(args, kwargs, pos, bo) ==
    /\ stack # <<>>
    /\ PyValidCall(w.func_sig, args, kwargs)
    /\ \E d \in {stacked_call(stack, Len(stack), w.func_sig, args, kwargs, pos, bo,
                             contract_violation_handler, f_locals, f_globals, heap)} :
          last' = [op |-> "stacked_call", trace |-> d.trace, outcome |-> d.outcome,
                   args |-> args, kwargs |-> kwargs]
    /\ UNCHANGED <<mapVars, heap, bindVars, registryVars, scopeVars, c, w, in_with, otherVars>>

StackNext ==
    \/ \E func_sig \in FuncSigs : stack_def(func_sig)
    \/ \E kind \in {"pre", "post"}, labels \in LabelLists : stack_apply(kind, labels)
    \/ \E args \in CallArgs, kwargs \in CallKwargs, bo \in BodyOutcomes,
          pos \in [1..Len(stack) -> PredicateOutcomes] : stack_call(args, kwargs, pos, bo)

SpecStack == Init /\ [][StackNext]_vars

\* ------------------------------------------------------------------------
\* Two threads in set_contract_evaluation_semantics.  The function takes no
\* lock; a thread may be suspended between any two statements, so each
\* statement that touches __assertion_semantics is a step of its own.

\* `default = __assertion_semantics`: the local names the registry's dict
\* itself, not a copy of it
ArgRegistry == [tag |-> "registry"]

\* default[kind], read when the statement runs
read_default(default, table, kind) ==
    IF default.tag = "registry" THEN table[kind] ELSE default.table[kind]

\* what thread t calls: the first thread sets the semantic of preconditions
\* only, the second that of postconditions only
ThreadCalls(t) ==
    {[default |-> ArgNone,
      pre |-> IF t = 1 THEN ArgSemantic(sem) ELSE ArgNone,
      post |-> IF t = 1 THEN ArgNone ELSE ArgSemantic(sem)] : sem \in EvaluationSemantic}

threadFrame == <<mapVars, heap, bindVars, contract_violation_handler, overrideVars, scopeVars,
                 c, w, in_with, stack, expensiveVars, last>>

\* thread t calls set_contract_evaluation_semantics(default, pre, post)
set_begin(t, args) ==
    /\ threads[t].pc = "idle"
    /\ threads' = [threads EXCEPT ![t] = [pc |-> "default", args |-> args, default |-> args.default,
                                          pre |-> args.pre, post |-> args.post]]
    /\ UNCHANGED <<threadFrame, assertion_semantics>>

\* lines 39-42
set_default(t) ==
    /\ threads[t].pc = "default"
    /\ threads' = [threads EXCEPT ![t].pc = "pre",
                                  ![t].default =
                                      CASE @.tag = "None" -> ArgRegistry
                                        [] @.tag = "semantic" ->
                                             ArgTable([k \in AssertionKind |-> @.semantic])
                                        [] OTHER -> @]
    /\ UNCHANGED <<threadFrame, assertion_semantics>>

\* lines 43-44
set_pre(t) ==
    /\ threads[t].pc = "pre"
    /\ threads' = [threads EXCEPT ![t].pc = "post",
                                  ![t].pre =
                                      IF @.tag = "None"
                                      THEN ArgSemantic(read_default(threads[t].default,
                                                                    assertion_semantics, "pre"))
                                      ELSE @]
    /\ UNCHANGED <<threadFrame, assertion_semantics>>

\* lines 45-46
set_post(t) ==
    /\ threads[t].pc = "post"
    /\ threads' = [threads EXCEPT ![t].pc = "write_pre",
                                  ![t].post =
                                      IF @.tag = "None"
                                      THEN ArgSemantic(read_default(threads[t].default,
                                                                    assertion_semantics, "post"))
                                      ELSE @]
    /\ UNCHANGED <<threadFrame, assertion_semantics>>

\* line 48
set_write_pre(t) ==
    /\ threads[t].pc = "write_pre"
    /\ assertion_semantics' = [assertion_semantics EXCEPT !["pre"] = threads[t].pre.semantic]
    /\ threads' = [threads EXCEPT ![t].pc = "write_post"]
    /\ UNCHANGED threadFrame

\* line 49, and the return
set_write_post(t) ==
    /\ threads[t].pc = "write_post"
    /\ assertion_semantics' = [assertion_semantics EXCEPT !["post"] = threads[t].post.semantic]
    /\ threads' = [threads EXCEPT ![t].pc = "returned"]
    /\ UNCHANGED threadFrame

ThreadNext ==
    \E t \in Threads :
        \/ \E args \in ThreadCalls(t) : set_begin(t, args)
        \/ set_default(t)
        \/ set_pre(t)
        \/ set_post(t)
        \/ set_write_pre(t)
        \/ set_write_post(t)

SpecThreads == Init /\ [][ThreadNext]_vars

\* ------------------------------------------------------------------------
\* Scoped overrides of the handler and of the flag of expensive assertions,
\* nested in one another

\* set_expensive_assertions_enabled(enabled)
set_expensive_assertions_enabled(enabled) ==
    /\ expensive_assertions_enabled' = enabled
    /\ last' = [op |-> "set_expensive_assertions_enabled", trace |-> <<>>, outcome |-> Return(None)]
    /\ UNCHANGED <<mapVars, heap, bindVars, registryVars, scopeVars, c, w, in_with, stack, threads,
                   expensive_scopes>>

\* with e: ...   (entry), e an enable_expensive object
expensive_enter(o) ==
    /\ Len(entered) < MaxNesting
    /\ expensive_scopes' = [expensive_scopes EXCEPT ![o].old_enable = expensive_assertions_enabled]
    /\ expensive_assertions_enabled' = expensive_scopes[o].enable
    /\ entered' = Append(entered, [scope |-> o, registered |-> contract_violation_handler,
                                   enabled |-> expensive_assertions_enabled])
    /\ last' = [op |-> "enable_expensive.__enter__", trace |-> <<>>, outcome |-> Return("self")]
    /\ UNCHANGED <<mapVars, heap, bindVars, assertion_semantics, contract_violation_handler, scopes,
                   scopeVars, c, w, in_with, stack, threads>>

\* with e: ...   (exit)
expensive_exit(exc) ==
    /\ entered # <<>>
    /\ entered[Len(entered)].scope \in ExpensiveObjects
    /\ expensive_assertions_enabled' = expensive_scopes[entered[Len(entered)].scope].old_enable
    /\ entered' = SubSeq(entered, 1, Len(entered) - 1)
    /\ last' = [op |-> "enable_expensive.__exit__", trace |-> <<>>,
                outcome |-> Return("False"), exc |-> exc,
                propagated |-> with_statement("False", exc)]
    /\ UNCHANGED <<mapVars, heap, bindVars, assertion_semantics, contract_violation_handler, scopes,
                   scopeVars, c, w, in_with, stack, threads, expensive_scopes>>

\* a client that sets the handler and the flag outside of any block, and
\* enters and leaves blocks on the override objects, properly nested
OverrideNext ==
    \/ /\ entered = <<>>
       /\ \E handler \in Handlers : set_contract_violation_handler(handler)
    \/ /\ entered = <<>>
       /\ \E enabled \in BOOLEAN : set_expensive_assertions_enabled(enabled)
    \/ \E o \in ScopeObjects : handler_enter(o)
    \/ \E exc \in BodyErrors : handler_exit(exc)
    \/ \E o \in ExpensiveObjects : expensive_enter(o)
    \/ \E exc \in BodyErrors : expensive_exit(exc)

SpecOverride == Init /\ [][OverrideNext]_vars

\* ------------------------------------------------------------------------
\* Properties of the contracts

\* the places of the events of one kind in the last run
Events(ev) == {j \in DOMAIN last.trace : last.trace[j].ev = ev}

\* the last operation was a call of the function a contract of this kind
\* wraps in checked_func
CheckedCall(kind) ==
    /\ last.op = "checked_func"
    /\ c.kind = kind
    /\ w.state = "checked_func"

\* C1: under the semantic ignore (labels applied) no run of the decorated
\* function and no entry into or exit from a with block invokes the predicate
C1_IgnoreNeverInvokesPredicate ==
    (c # NoContract /\ c.semantic = ignore) => Events("predicate") = {}

\* an ignored precondition was used as a context manager, and the block entered
C1_Witness ==
    /\ c.kind = "pre"
    /\ c.semantic = ignore
    /\ last.op = "__enter__"
    /\ last.outcome.kind = "return"

\* C2: in a call of a precondition-wrapped function the predicate is
\* evaluated, and the handler invoked if it is not satisfied, before the body
\* starts; a raising handler keeps the body from running and its error
\* reaches the caller; a satisfied predicate, or a handler that returns under
\* observe, lets the body run and its result is returned
C2_PreconditionBeforeBody ==
    CheckedCall("pre") =>
        /\ \A b \in Events("body") :
              \E p \in Events("predicate") :
                 /\ p < b
                 /\ last.trace[p].result = "false" =>
                       \E h \in Events("handler") : p < h /\ h < b
        /\ \A h \in Events("handler") :
              last.trace[h].handler = raising_contract_violation_handler =>
                 /\ Events("body") = {}
                 /\ last.outcome = Raise("ContractViolationException")
        /\ \A p \in Events("predicate") :
              (\/ last.trace[p].result = "true"
               \/ /\ last.trace[p].result = "false"
                  /\ c.semantic = observe
                  /\ \E h \in Events("handler") :
                        last.trace[h].handler = default_contract_violation_handler) =>
                 Events("body") # {}

\* C3: the one unbound parameter of a postcondition's predicate gets the
\* return value of the call; a satisfied predicate returns that value with no
\* handler invocation, a falsy one invokes the handler once, with a violation
\* of kind post and detection mode PredicateFalse
C3_ResultParameter ==
    (CheckedCall("post") /\ c.result_param_name # NoName) =>
        \A p \in Events("predicate") :
           \E b \in Events("body") :
              /\ b < p
              /\ last.trace[b].outcome.kind = "return"
              /\ last.trace[p].kwargs[c.result_param_name] = last.trace[b].outcome.value
              /\ last.trace[p].result = "true" =>
                    /\ last.outcome = Return(last.trace[p].kwargs[c.result_param_name])
                    /\ Events("handler") = {}
              /\ last.trace[p].result = "false" =>
                    /\ Cardinality(Events("handler")) = 1
                    /\ \A h \in Events("handler") :
                          /\ last.trace[h].violation.kind = "post"
                          /\ "detection_mode" \in DOMAIN last.trace[h].violation
                          /\ last.trace[h].violation.detection_mode = "predicate_false"

\* C4: a predicate that raises under observe or enforce is caught: one
\* violation goes to the handler, with detection mode PredicateRaised and the
\* error as its cause, and the predicate's error does not reach the caller
C4_PredicateErrorCaught ==
    (c # NoContract /\ c.semantic \in {observe, enforce}) =>
        \A p \in Events("predicate") :
           last.trace[p].result = "raise" =>
              /\ Cardinality(Events("handler")) = 1
              /\ \A h \in Events("handler") :
                    /\ "detection_mode" \in DOMAIN last.trace[h].violation
                    /\ last.trace[h].violation.detection_mode = "predicate_raised"
                    /\ last.trace[h].violation.evaluation_exception = "PredicateError"
              /\ last.outcome # Raise("PredicateError")

\* C5: an unsatisfied predicate under enforce or quick_enforce never lets the
\* wrapped call return: one handler invocation under enforce, none and no
\* violation record under quick_enforce, and then abnormal termination
C5_EnforceTerminates ==
    (last.op = "checked_func" /\ w.state = "checked_func"
       /\ c.semantic \in {enforce, quick_enforce}) =>
        \A p \in Events("predicate") :
           last.trace[p].result = "false" =>
              /\ last.outcome.kind # "return"
              /\ c.semantic = enforce => Cardinality(Events("handler")) = 1
              /\ c.semantic = quick_enforce =>
                    Events("handler") = {} /\ Events("violation") = {}

\* the names a contract binds for the function it is applied to, and the
\* names in scope there
BoundNames(contract, func_sig) ==
    IF contract.kind = "pre"
    THEN SigNames(func_sig) \cup DOMAIN contract.capture \cup DOMAIN contract.clone
    ELSE DOMAIN contract.capture_before \cup DOMAIN contract.capture_after
         \cup DOMAIN contract.clone_before \cup DOMAIN contract.clone_after
         \cup ({contract.result_param_name} \ {NoName})

SourceName(contract, func_sig, n) ==
    IF contract.kind = "pre"
    THEN IF n \in DOMAIN contract.clone THEN contract.clone[n]
         ELSE IF n \in DOMAIN contract.capture THEN contract.capture[n]
         ELSE n
    ELSE IF n \in DOMAIN contract.clone_after THEN contract.clone_after[n]
         ELSE IF n \in DOMAIN contract.clone_before THEN contract.clone_before[n]
         ELSE IF n \in DOMAIN contract.capture_after THEN contract.capture_after[n]
         ELSE IF n \in DOMAIN contract.capture_before THEN contract.capture_before[n]
         ELSE n

NamesInScope(contract, func_sig) ==
    SigNames(func_sig)
    \cup (IF contract.parent_frame THEN DOMAIN f_locals \cup DOMAIN f_globals ELSE {})
    \cup (IF contract.kind = "post" THEN {contract.result_param_name} \ {NoName} ELSE {})

Malformed(contract, func_sig) ==
    \E n \in SigNames(contract.pred_params) :
       \/ n \notin BoundNames(contract, func_sig)
       \/ SourceName(contract, func_sig, n) \notin NamesInScope(contract, func_sig)

RECURSIVE ChainVals(_, _, _)
ChainVals(oid, h, seen) ==
    IF oid = 0 \/ oid \in seen \/ oid \notin DOMAIN h
    THEN <<>>
    ELSE <<h[oid].val>> \o ChainVals(h[oid].next, h, seen \cup {oid})

DeepVal(value, h) == ChainVals(value.oid, h, {})

\* the first scope, in list order, that holds the name
FirstHolder(name) ==
    CHOOSE j \in DOMAIN b_candidates :
        /\ name \in DOMAIN b_candidates[j]
        /\ \A k \in DOMAIN b_candidates : name \in DOMAIN b_candidates[k] => j <= k

\* the object the resolver has to find for a source name
SourceOf(name) == Ref(ScopeOid(FirstHolder(name), name))

Requested == Range(b_capture) \cup Range(b_clone)

InSomeScope(name) == \E j \in DOMAIN b_candidates : name \in DOMAIN b_candidates[j]

\* the parameters bound by reference: `referenced | cloned` lets clone win
ByReference == (DOMAIN b_capture) \ (DOMAIN b_clone)

Changed == {o \in DOMAIN heap : heap'[o] # heap[o]}

\* C8: a value bound through clone shares no mutable state with its source
\* and a mutation of either is never visible through the other; a value bound
\* through capture is the source object itself, and a mutation through either
\* is visible through the other.
C8_Sharing ==
    b_result.kind = "ok" =>
        /\ \A k \in DOMAIN b_clone :
              Reach(b_result.kwargs[k], heap) \cap ScopeReach(b_candidates, heap) = {}
        /\ \A k \in ByReference : b_result.kwargs[k] = SourceOf(b_capture[k])

C8_Mutation ==
    (b_result.kind = "ok" /\ b_result' = b_result /\ heap' # heap) =>
        /\ \A k \in DOMAIN b_clone :
              LET bound == b_result.kwargs[k]
                  src == SourceOf(b_clone[k])
              IN  /\ Changed \subseteq Reach(src, heap) => DeepVal(bound, heap') = DeepVal(bound, heap)
                  /\ Changed \subseteq Reach(bound, heap) => DeepVal(src, heap') = DeepVal(src, heap)
        /\ \A k \in ByReference :
              LET bound == b_result.kwargs[k]
                  src == SourceOf(b_capture[k])
              IN  /\ DeepVal(bound, heap') = DeepVal(src, heap')
                  /\ Changed \cap Reach(src, heap) # {} => DeepVal(bound, heap') # DeepVal(bound, heap)

C8_CloneIndependentCaptureAliases == [](C8_Sharing) /\ [][C8_Mutation]_vars

\* a nested list was cloned and captured, and a nested list was mutated
C8_Witness ==
    /\ b_result.kind = "ok"
    /\ \E k \in DOMAIN b_clone : Len(DeepVal(SourceOf(b_clone[k]), heap)) = 2
    /\ \E k \in ByReference : Len(DeepVal(SourceOf(b_capture[k]), heap)) = 2
    /\ heap[InnerOid].val = 1

\* C9: each requested parameter is bound to the value of the first candidate
\* scope, in list order, that holds its source name (a deep copy of it for a
\* clone), and ValueError names an unresolved source when some requested source
\* is in no scope.
C9_Resolved ==
    (b_result = NoResult /\ b_result' # NoResult) =>
        IF \A n \in Requested : InSomeScope(n)
        THEN /\ b_result'.kind = "ok"
             /\ DOMAIN b_result'.kwargs = (DOMAIN b_capture) \cup (DOMAIN b_clone)
             /\ \A k \in ByReference : b_result'.kwargs[k] = SourceOf(b_capture[k])
             /\ \A k \in DOMAIN b_clone :
                   DeepVal(b_result'.kwargs[k], heap') = DeepVal(SourceOf(b_clone[k]), heap)
        ELSE /\ b_result'.kind = "ValueError"
             /\ b_result'.name \in Requested
             /\ ~InSomeScope(b_result'.name)

C9_FirstScopeWins == [][C9_Resolved]_vars

\* a source name held by two scopes was resolved
C9_Witness ==
    /\ b_result.kind = "ok"
    /\ \E n \in Requested :
          Cardinality({j \in DOMAIN b_candidates : n \in DOMAIN b_candidates[j]}) >= 2

\* ------------------------------------------------------------------------
\* Properties of the argument mapper

\* C10: for every valid call, the keys of the mapper's output are exactly the
\* declared parameter names, those that rely on their default included.
C10_AllDeclaredNames ==
    (m_result # NoResult /\ PyValidCall(m_signature, m_args, m_kwargs)) =>
        /\ m_result.kind = "ok"
        /\ DOMAIN m_result.argsmap = SigNames(m_signature)

\* the parameters with a default for which the call supplies no value
DefaultsUsed ==
    {m_signature[j].name : j \in {k \in DOMAIN m_signature :
        /\ m_signature[k].hasDefault
        /\ m_signature[k].name \notin PyBound(m_signature, m_args, m_kwargs)}}

ExcessPositional ==
    /\ ~HasKind(m_signature, VAR_POSITIONAL)
    /\ Len(m_args) > Cardinality({j \in DOMAIN m_signature :
                                    \/ m_signature[j].kind = POSITIONAL_ONLY
                                    \/ /\ m_signature[j].kind = POSITIONAL_OR_KEYWORD
                                       /\ m_signature[j].name \notin DOMAIN m_kwargs})

\* a named argument that no keyword-only or positional-or-keyword parameter
\* takes, and no **kwargs parameter to hold it
UnmatchedNamed ==
    /\ ~HasKind(m_signature, VAR_KEYWORD)
    /\ \E k \in DOMAIN m_kwargs : k \notin KeywordNames(m_signature)

\* C12: the mapper fails with TypeError whenever a positional argument is
\* left unconsumed, and whenever, without a **kwargs parameter, a named
\* argument is consumed by no keyword-only or positional-or-keyword parameter
C12_ExcessArgumentsFail ==
    (m_result # NoResult /\ (ExcessPositional \/ UnmatchedNamed)) =>
        m_result.kind = "TypeError"

\* ------------------------------------------------------------------------
\* Properties of the declaration

\* the semantic a declaration resolves: the registry's for the kind, unless a
\* label makes it ignore
DeclaredSemantic(kind, labels, table) ==
    IF \E j \in DOMAIN labels :
          labels[j] = "ignore" \/ (labels[j] = "ignore_postconditions" /\ kind = "post")
    THEN ignore
    ELSE table[kind]

C13_Declared ==
    (last.op \in {"pre.__init__", "post.__init__"} /\ last.outcome.kind = "return") =>
        c.semantic = DeclaredSemantic(c.kind, last.labels, assertion_semantics)

C13_Applied ==
    (last.op = "__call__" /\ last.outcome.kind = "return") =>
        (w.state = "func" <=> c.semantic = ignore)

C13_Called ==
    last.op = "checked_func" =>
        /\ w.state = "func" <=> c.semantic = ignore
        /\ Events("predicate") # {} <=>
              /\ c.semantic # ignore
              /\ c.kind = "pre" \/ \E b \in Events("body") : last.trace[b].outcome.kind = "return"

C13_Kept == c # NoContract => c'.semantic = c.semantic

C14_ScopedHandlerRestored ==
    [][Len(entered') < Len(entered) =>
          /\ contract_violation_handler' = entered[Len(entered)].registered
          /\ last'.propagated = last'.exc]_vars

\* the semantic a scoped override asks for a kind: the one given for the
\* kind, or else the one given for all kinds
RequestedSemantic(keywords, kind) ==
    IF keywords[kind] # ArgNone THEN keywords[kind] ELSE keywords["default"]

\* C15: in a `with` block on contract_evaluation_semantics the kinds the
\* override names have the semantic asked for, and once the block is left
\* every kind has the semantic it had before the block
C15_ScopedSemantics ==
    /\ [](last.op = "with contract_evaluation_semantics" =>
            /\ last.outcome.kind = "return"
            /\ \A kind \in AssertionKind :
                  RequestedSemantic(last.keywords, kind) # ArgNone =>
                     last.inside[kind] = RequestedSemantic(last.keywords, kind).semantic)
    /\ [][last'.op = "with contract_evaluation_semantics" =>
             assertion_semantics' = assertion_semantics]_vars

\* C16: set_contract_violation_handler returns the handler registered before
\* the call, set_contract_evaluation_semantics the table in effect before it
C16_SettersReturnPrevious ==
    [][/\ last'.op = "set_contract_violation_handler" =>
             last'.outcome = Return(Callable(contract_violation_handler))
       /\ last'.op = "set_contract_evaluation_semantics" =>
             last'.outcome = Return(ArgTable(assertion_semantics))]_vars

\* the kinds a call of the setter names, and the semantic it gives each
Targeted(set) ==
    IF set.default # ArgNone THEN AssertionKind
    ELSE {k \in {"pre", "post"} : set[k] # ArgNone}

TargetedSemantic(set, kind) ==
    IF kind \in {"pre", "post"} /\ set[kind] # ArgNone THEN set[kind].semantic
    ELSE set.default.semantic

\* C17: set_contract_evaluation_semantics gives every kind it names the
\* semantic given (one semantic as `default` names all three kinds) and
\* leaves every other kind as it was
C17_SetChangesTargetedKinds ==
    [][last'.op = "set_contract_evaluation_semantics" =>
          \A kind \in AssertionKind :
             assertion_semantics'[kind] =
                IF kind \in Targeted(last') THEN TargetedSemantic(last', kind)
                ELSE assertion_semantics[kind]]_vars

\* ------------------------------------------------------------------------
\* Properties of the validator

KindsOf(pred_params) == {pred_params[j].kind : j \in DOMAIN pred_params}

\* C18: applying a contract whose predicate has keyword-only and
\* positional-or-keyword parameters only, all bound and in scope, is
\* accepted; a predicate with a positional-only, *args or **kwargs parameter
\* is rejected with TypeError
C18_ValidatorKinds ==
    last.op = "__call__" =>
        /\ (/\ KindsOf(c.pred_params) \subseteq {KEYWORD_ONLY, POSITIONAL_OR_KEYWORD}
            /\ ~Malformed(c, last.func_sig)) =>
              last.outcome.kind = "return"
        /\ KindsOf(c.pred_params) \cap {POSITIONAL_ONLY, VAR_POSITIONAL, VAR_KEYWORD} # {} =>
              /\ last.outcome.kind = "raise"
              /\ last.outcome.exc = "TypeError"

\* C19: applying a malformed contract hands the registered handler one
\* violation with detection mode Implicit, under every semantic, ignore
\* included
C19_ImplicitViolationDispatched ==
    (last.op = "__call__" /\ Malformed(c, last.func_sig)) =>
        \E h \in Events("handler") :
           /\ last.trace[h].handler = contract_violation_handler
           /\ "detection_mode" \in DOMAIN last.trace[h].violation
           /\ last.trace[h].violation.detection_mode = "implicit"

\* ------------------------------------------------------------------------
\* Properties of the bindings at call time

\* the names the candidate scopes of a call of the decorated function may hold
NamesAtCall == SigNames(w.func_sig) \cup DOMAIN f_locals \cup DOMAIN f_globals

\* the sources the contract asks for before the body runs, and after it, that
\* no candidate scope holds
MissingBefore ==
    IF c.kind = "pre" THEN (Range(c.capture) \cup Range(c.clone)) \ NamesAtCall
    ELSE (Range(c.capture_before) \cup Range(c.clone_before)) \ NamesAtCall

MissingAfter ==
    IF c.kind = "pre" THEN {}
    ELSE ((Range(c.capture_after) \cup Range(c.clone_after)) \ {c.result_param_name})
         \ NamesAtCall

MissingAtCall ==
    /\ last.op = "checked_func"
    /\ w.state = "checked_func"
    /\ MissingBefore \cup MissingAfter # {}

\* C20: a call of the decorated function whose contract asks for a source
\* that no candidate scope holds ends in ValueError with neither the
\* predicate nor the body run, whichever set of pre or post asks for it
C20_BindingErrorBeforeBody ==
    MissingAtCall =>
        /\ last.outcome.kind = "raise"
        /\ last.outcome.exc = "ValueError"
        /\ Events("predicate") = {}
        /\ Events("body") = {}

\* C20, as the code has it: the predicate is never invoked; a source missing
\* for pre or for a before set of post ends the call in ValueError before the
\* body; a source missing for an after set only is looked for once the body
\* has run, and ValueError ends the call if the body returned
C20_BindingErrorBeforePredicate ==
    MissingAtCall =>
        /\ Events("predicate") = {}
        /\ MissingBefore # {} =>
              /\ last.outcome.kind = "raise"
              /\ last.outcome.exc = "ValueError"
              /\ Events("body") = {}
        /\ MissingBefore = {} =>
              /\ Cardinality(Events("body")) = 1
              /\ \A b \in Events("body") :
                    IF last.trace[b].outcome.kind = "raise"
                    THEN last.outcome = last.trace[b].outcome
                    ELSE /\ last.outcome.kind = "raise"
                         /\ last.outcome.exc = "ValueError"
                         /\ last.outcome.name \in MissingAfter

\* the body of a function with a postcondition returned, and then a source
\* of an after set was found missing
C20_Witness ==
    /\ MissingAtCall
    /\ c.kind = "post"
    /\ MissingBefore = {}
    /\ MissingAfter # {}
    /\ \E b \in Events("body") : last.trace[b].outcome.kind = "return"
    /\ last.outcome.kind = "raise"
    /\ last.outcome.exc = "ValueError"

\* ------------------------------------------------------------------------
\* Properties of repeated calls

\* what the predicate was given in a run: for each invocation the values of
\* its keyword arguments, read through the heap
PredicateBindings(run, h) ==
    {[k \in DOMAIN run.trace[j].kwargs |-> DeepVal(run.trace[j].kwargs[k], h)] :
        j \in {i \in DOMAIN run.trace : run.trace[i].ev = "predicate"}}

BodyResults(run) ==
    {run.trace[j].outcome : j \in {i \in DOMAIN run.trace : run.trace[i].ev = "body"}}

\* C21: a call of the decorated function that repeats the call before it,
\* with the same arguments and (for post) no other outcome of the body,
\* gives the predicate the same bindings as the call before, or none if the
\* call before gave it none
C21_SameBindingsTwice ==
    [][(/\ last'.op = "checked_func"
        /\ last'.again
        /\ c.kind = "post" =>
              \A r1 \in BodyResults(last), r2 \in BodyResults(last') : r1 = r2) =>
          PredicateBindings(last', heap') = PredicateBindings(last, heap)]_vars

\* a postcondition with a result parameter and a clone was checked in a call
\* that repeats the call before it
C21_Witness ==
    /\ CheckedCall("post")
    /\ last.again
    /\ c.result_param_name # NoName
    /\ c.result_param_name \in DOMAIN c.capture_after
    /\ DOMAIN c.clone_before \cup DOMAIN c.clone_after # {}
    /\ Events("predicate") # {}

\* ------------------------------------------------------------------------
\* Properties of the rendering

Rendered == last.op = "str"

\* C22: the rendering of a violation begins with its kind's word,
\* " violation at ", the file, ":" and the line; ": " and the comment come
\* next iff the comment is not empty; and the note that the violation is
\* unrecoverable is the last piece iff the semantic is enforce or
\* quick_enforce
C22_Rendering ==
    Rendered =>
        \E text \in {last.outcome.value} :
           /\ Len(text) >= 5
           /\ SubSeq(text, 1, 5) =
                 <<CASE last.self.kind = "pre" -> "Precondition"
                     [] last.self.kind = "post" -> "Postcondition"
                     [] last.self.kind = "assertion" -> "Assertion",
                   " violation at ", last.self.location.filename, ":",
                   ToString(last.self.location.lineno)>>
           /\ (/\ Len(text) >= 7
               /\ text[6] = ": "
               /\ text[7] = last.self.comment) <=> last.self.comment # ""
           /\ text[Len(text)] = unrecoverable_note
                 <=> last.self.semantic \in {enforce, quick_enforce}
           /\ last.self.is_terminating <=> last.self.semantic \in {enforce, quick_enforce}

\* a violation with a comment, context lines and an escaped exception was
\* rendered under a semantic that does not terminate
C22_Witness ==
    /\ Rendered
    /\ last.self.comment # ""
    /\ last.self.semantic = observe
    /\ Len(last.self.location.code_context) > 1
    /\ last.self.evaluation_exception # NoEvaluationException

\* ------------------------------------------------------------------------
\* Properties of the call a postcondition wraps

\* the body events of a run whose outcome is an error of the body
RaisedIn(run) ==
    {j \in DOMAIN run.trace : /\ run.trace[j].ev = "body"
                              /\ run.trace[j].outcome.kind = "raise"}

C23_Once ==
    CheckedCall("post") =>
        /\ Cardinality(Events("body")) <= 1
        /\ Events("body") # {} <=> MissingBefore = {}
        /\ \A b \in Events("body") : \A j \in DOMAIN last.trace : b <= j
        /\ Events("predicate") # {} => MissingAfter = {}
        /\ (/\ last.outcome.kind = "raise"
            /\ last.outcome.exc = "ValueError"
            /\ MissingBefore = {}) =>
              /\ last.outcome.name \in MissingAfter
              /\ \E b \in Events("body") : last.trace[b].outcome.kind = "return"
        /\ \A b \in RaisedIn(last) :
              /\ Len(last.trace) = 1
              /\ last.outcome = last.trace[b].outcome

C23_NoResultBinding ==
    (/\ last'.op = "checked_func"
     /\ w.state = "checked_func"
     /\ c.kind = "post"
     /\ RaisedIn(last') # {}) =>
        /\ c' = c
        /\ DOMAIN c.clone_before = {} => DOMAIN heap' \subseteq DOMAIN heap

ConsumedBefore(j) ==
    Min(Len(m_args),
        Cardinality({k \in 1..(j - 1) :
                        m_signature[k].kind \in {POSITIONAL_ONLY, POSITIONAL_OR_KEYWORD}}))

\* the named arguments a keyword-only or positional-or-keyword parameter takes
ConsumedNamed == (DOMAIN m_kwargs) \cap KeywordNames(m_signature)

MappedAsDeclared(j) ==
    LET p == m_signature[j]
        n == ConsumedBefore(j)
        argsmap == m_result.argsmap
    IN  CASE p.kind = POSITIONAL_ONLY ->
               n < Len(m_args) => (p.name \in DOMAIN argsmap /\ argsmap[p.name] = m_args[n + 1])
          [] p.kind = POSITIONAL_OR_KEYWORD ->
               IF p.name \in DOMAIN m_kwargs
               THEN p.name \in DOMAIN argsmap /\ argsmap[p.name] = m_kwargs[p.name]
               ELSE n < Len(m_args) =>
                       (p.name \in DOMAIN argsmap /\ argsmap[p.name] = m_args[n + 1])
          [] p.kind = KEYWORD_ONLY ->
               p.name \in DOMAIN m_kwargs =>
                   (p.name \in DOMAIN argsmap /\ argsmap[p.name] = m_kwargs[p.name])
          [] p.kind = VAR_POSITIONAL ->
               /\ p.name \in DOMAIN argsmap
               /\ argsmap[p.name] = [tag |-> "tuple", items |-> SubSeq(m_args, n + 1, Len(m_args))]
          [] p.kind = VAR_KEYWORD ->
               /\ p.name \in DOMAIN argsmap
               /\ argsmap[p.name] =
                     [tag |-> "dict",
                      map |-> Restrict(m_kwargs, (DOMAIN m_kwargs) \ ConsumedNamed)]

\* C24: for a valid call the mapper gives each positional-only parameter the
\* next unconsumed positional argument, each positional-or-keyword parameter
\* the named argument of its name or else the next unconsumed positional
\* argument, each keyword-only parameter the named argument of its name, the
\* *args parameter the positional arguments still unconsumed, in order, and
\* the **kwargs parameter exactly the named arguments that no keyword-only or
\* positional-or-keyword parameter consumed
C24_EachKindMapped ==
    (m_result # NoResult /\ PyValidCall(m_signature, m_args, m_kwargs)) =>
        /\ m_result.kind = "ok"
        /\ \A j \in DOMAIN m_signature : MappedAsDeclared(j)

\* ------------------------------------------------------------------------
\* Properties of stacked contracts

\* the layers whose decoration returned a checked_func
CheckedLayers == {k \in DOMAIN stack : stack[k].state = "checked_func"}

\* C25: one call of a function that carries stacked contracts, one at least
\* evaluated, runs the argument mapper once; the mapper is given the
\* function's signature and the call's arguments, and the function receives
\* the arguments of the call as they were given
C25_MappedOncePerCall ==
    (last.op = "stacked_call" /\ CheckedLayers # {}) =>
        /\ Cardinality(Events("map")) = 1
        /\ \A m \in Events("map") :
              /\ last.trace[m].signature = w.func_sig
              /\ last.trace[m].args = last.args
              /\ last.trace[m].kwargs = last.kwargs
        /\ \A b \in Events("body") :
              /\ last.trace[b].args = last.args
              /\ last.trace[b].kwargs = last.kwargs

\* ------------------------------------------------------------------------
\* Properties of the bindings of a precondition

\* the value Python binds to parameter `name` of the decorated function in
\* the last call: the named argument, the positional argument of its place,
\* or else the parameter's default value
ArgumentOf(name) ==
    LET j == CHOOSE k \in DOMAIN w.func_sig : w.func_sig[k].name = name
    IN  IF name \in DOMAIN last.kwargs THEN last.kwargs[name]
        ELSE IF j <= Len(last.args) THEN last.args[j]
        ELSE [tag |-> "default"]

\* the last operation was a call, valid for the function, of a function
\* whose precondition has a predicate over parameters of the function only
\* and neither capture nor clone
OwnParametersCall ==
    /\ CheckedCall("pre")
    /\ SigNames(c.pred_params) \subseteq SigNames(w.func_sig)
    /\ c.capture = EmptyDict
    /\ c.clone = EmptyDict
    /\ PyValidCall(w.func_sig, last.args, last.kwargs)

\* C26: a valid call of a function whose precondition's predicate takes
\* parameters of the function only raises no binding error, and the
\* predicate is given, for each of its parameters, the argument the call
\* binds to the parameter of that name, the default value included
C26_OwnParametersFromArguments ==
    OwnParametersCall =>
        /\ ~(last.outcome.kind = "raise" /\ last.outcome.exc = "ValueError")
        /\ \A e \in Events("predicate") :
              \A n \in DOMAIN last.trace[e].kwargs :
                  last.trace[e].kwargs[n] = ArgumentOf(n)

\* the predicate parameters a precondition binds to a source of another name
Renamed ==
    {n \in SigNames(c.pred_params) :
        \/ n \in DOMAIN c.clone /\ c.clone[n] # n
        \/ n \in (DOMAIN c.capture) \ (DOMAIN c.clone) /\ c.capture[n] # n}

\* the object a source name stands for in the last call: the argument bound
\* to the parameter of that name, else the enclosing local, else the global
SourceValue(name) ==
    IF name \in SigNames(w.func_sig) /\ ArgumentOf(name) # [tag |-> "default"]
    THEN ArgumentOf(name)
    ELSE IF name \in DOMAIN f_locals THEN f_locals[name]
    ELSE f_globals[name]

\* C27: in a valid call of a function with a precondition, a predicate
\* parameter bound by capture or clone to a source of another name that some
\* candidate scope holds causes no binding error, and the predicate is given
\* the source's object for capture and a copy of it, equal in value, for clone
C27_RenamedSourceResolved ==
    (/\ CheckedCall("pre")
     /\ PyValidCall(w.func_sig, last.args, last.kwargs)
     /\ MissingBefore = {}) =>
        /\ ~(/\ last.outcome.kind = "raise"
             /\ last.outcome.exc = "ValueError"
             /\ last.outcome.name \in Renamed)
        /\ \A e \in Events("predicate") :
              \A n \in Renamed :
                 /\ n \in DOMAIN last.trace[e].kwargs
                 /\ IF n \in DOMAIN c.clone
                    THEN /\ last.trace[e].kwargs[n] # SourceValue(c.clone[n])
                         /\ DeepVal(last.trace[e].kwargs[n], heap)
                               = DeepVal(SourceValue(c.clone[n]), heap)
                    ELSE last.trace[e].kwargs[n] = SourceValue(c.capture[n])

\* ------------------------------------------------------------------------
\* Properties of concurrent registry updates

BothReturned == \A t \in Threads : threads[t].pc = "returned"

\* the table before either call
TableBefore == [k \in AssertionKind |-> check]

\* the table a call leaves when nothing runs beside it
After(table, args) == set_semantics(table, args.default, args.pre, args.post)

\* C28: when one thread has set the semantic of preconditions and the other
\* that of postconditions, the table is what one of the two serial orders of
\* the calls leaves: it holds both updates
C28_BothUpdatesKept ==
    BothReturned =>
        \/ assertion_semantics = After(After(TableBefore, threads[1].args), threads[2].args)
        \/ assertion_semantics = After(After(TableBefore, threads[2].args), threads[1].args)

\* ------------------------------------------------------------------------
\* Properties of nested scoped overrides

\* C29: when the outermost block of a nest of blocks on override objects is
\* left, the registered handler and the flag of expensive assertions are
\* those the outermost block found when it was entered, also when an object
\* is entered again while a block on it is open
C29_OutermostExitRestores ==
    [][(entered # <<>> /\ entered' = <<>>) =>
          /\ contract_violation_handler' = entered[1].registered
          /\ expensive_assertions_enabled' = entered[1].enabled]_vars

\* ------------------------------------------------------------------------
\* Properties of ignored contracts as context managers

\* the operation is the entry into, or the exit from, a with block on a
\* contract whose semantic is ignore
IgnoredScopeStep ==
    /\ c # NoContract
    /\ c.semantic = ignore
    /\ last'.op \in {"__enter__", "__exit__"}

\* C30: the entry into and the exit from a with block on a pre or post
\* object whose semantic is ignore raise nothing, resolve no name (the
\* object holds no resolved bindings afterwards that it did not hold before)
\* and copy no object
C30_IgnoredScopeNoEffect ==
    [][IgnoredScopeStep =>
          /\ last'.outcome.kind = "return"
          /\ c' = c
          /\ DOMAIN heap' \subseteq DOMAIN heap]_vars

====
